---- MODULE Spec2Model ----
(***************************************************************************)
(* A model of runtime/dict.go: the insertion-ordered hash table behind the *)
(* Python dict of the Grumpy runtime (dictEntry, dictTable, Dict and the   *)
(* dict iterators).                                                        *)
(*                                                                         *)
(* Go pointers are positions: a *dictTable is an index into the heap       *)
(* `tables` (0 is nil), a *dictEntry is a 1-based position in the entries  *)
(* of its table (0 is nil), an *Object is a positive number (0 is nil).    *)
(* Go's 0-based entries[k] is entries[k+1] here, indices[i] is             *)
(* indices[i+1]; the stored index values are Go's (1-based, 0 = empty).    *)
(*                                                                         *)
(* Records list their fields in the order TLC keeps them in (the order of  *)
(* the names' first use in the module), so that a record value shared by   *)
(* TLC's workers is never rearranged while one of them reads it.           *)
(***************************************************************************)
EXTENDS Integers, Sequences, FiniteSets, TLC

\* ------------------------------------------------------------ constants
maxDictSize == 1073741824
minDictSize == 4
maxDictWithoutHashSize == 8

nil == 0

\* ------------------------------------------------- the object model
\* Key objects. Eq is the user-level equality and Hash the user-level hash
\* of the surrounding object model: objects of one class are equal (as 1
\* and 1.0 are) and have one hash. Classes 1 and 3 share a hash, classes
\* 1, 2, 3 and 4 share the low five bits, class 4 has a negative hash and
\* class 5 sits on the probe path of the others.
HashOfClass == <<1, 33, 1, -31, 7>>
NumClasses == Len(HashOfClass)
KeyObjs == 1..(NumClasses + 1)
Classes == 1..NumClasses
Cls(o) == IF o > NumClasses THEN o - NumClasses ELSE o
Hash(o) == HashOfClass[Cls(o)]
Eq(a, b) == Cls(a) = Cls(b)
\* Value objects.
Values == {1, 2}

\* The element of a one-element set. (x \in {e} binds x to the value of e,
\* computed once; a LET definition is computed again at each use.)
Only(S) == CHOOSE x \in S : TRUE

\* ------------------------------------------------- machine arithmetic
RECURSIVE BitAnd(_, _)
BitAnd(a, b) ==
  IF a = 0 \/ b = 0 THEN 0
  ELSE (a % 2) * (b % 2) + 2 * BitAnd(a \div 2, b \div 2)

RECURSIVE BitOr(_, _)
BitOr(a, b) ==
  IF a = 0 THEN b
  ELSE IF b = 0 THEN a
  ELSE (IF a % 2 = 1 \/ b % 2 = 1 THEN 1 ELSE 0) + 2 * BitOr(a \div 2, b \div 2)

ShiftR(a, k) == a \div (2 ^ k)

\* A Go uint (64 bits) as its thirteen base-32 digits, lowest first: the
\* model checker's integers have 32 bits, and the probe sequence consumes
\* the perturbation five bits at a time.
UintBits == 64
PerturbShift == 5
DigitBase == 2 ^ PerturbShift
NumDigits == (UintBits + PerturbShift - 1) \div PerturbShift
TopDigitMax == 2 ^ (UintBits - (NumDigits - 1) * PerturbShift) - 1
RECURSIVE DigitsOf(_, _)
DigitsOf(n, len) ==
  IF len = 0 THEN <<>> ELSE <<n % DigitBase>> \o DigitsOf(n \div DigitBase, len - 1)

\* uint(hash): two's complement of a negative hash, digit by digit
\* (2^64 - n = (2^64 - 1) - (n - 1), and all-ones minus x has no borrow).
UintOf(hash) ==
  IF hash >= 0 THEN DigitsOf(hash, NumDigits)
  ELSE LET d == DigitsOf((0 - hash) - 1, NumDigits)
       IN  [j \in 1..NumDigits |->
              (IF j = NumDigits THEN TopDigitMax ELSE DigitBase - 1) - d[j]]

\* The low WordBits bits of a uint. The code's uint32 index register i is
\* kept to WordBits bits: only i & mask is ever read, mask + 1 is a power
\* of two below 2^WordBits, and the low bits of 5*i + p + 1 depend on the
\* low bits of i and p alone.
WordDigits == PerturbShift
WordBits == WordDigits * PerturbShift
Word == 2 ^ WordBits
RECURSIVE LowOf(_, _)
LowOf(digits, n) ==
  IF n = 0 \/ digits = <<>> THEN 0
  ELSE Head(digits) + DigitBase * LowOf(Tail(digits), n - 1)
Uint32Of(digits) == LowOf(digits, WordDigits)

\* perturb >> 5
ShiftPerturb(digits) == Tail(digits) \o <<0>>

\* (a perturbation that is never shifted out)
dictNextIndexKeepsPerturb(i, perturb) ==
  <<(i * 4 + i + Uint32Of(perturb) + 1) % Word, perturb>>
dictNextIndex(i, perturb) ==
  <<(i * 4 + i + Uint32Of(perturb) + 1) % Word, ShiftPerturb(perturb)>>

\* ------------------------------------------------------------ dictEntry
dictEntry(hash, key, value) == [hash |-> hash, key |-> key, value |-> value]
zeroEntry == dictEntry(0, nil, nil)

\* ------------------------------------------------------------ dictTable
IsPowerOfTwo(n) == n > 0 /\ BitAnd(n - 1, n) = 0

\* (a table of exactly the size asked for)
roundSizeExact(numEntries) ==
  IF numEntries <= minDictSize THEN minDictSize ELSE numEntries
\* newDictTable's rounding of numEntries: the capacity it allocates.
roundSize(numEntries) ==
  IF numEntries <= minDictSize THEN minDictSize
  ELSE IF BitAnd(numEntries - 1, numEntries) # 0
  THEN Only({ n5 + 1 :
              n5 \in { BitOr(n4, ShiftR(n4, 16)) :
              n4 \in { BitOr(n3, ShiftR(n3, 8)) :
              n3 \in { BitOr(n2, ShiftR(n2, 4)) :
              n2 \in { BitOr(n1, ShiftR(n1, 2)) :
              n1 \in { BitOr(numEntries, ShiftR(numEntries, 1)) } } } } } })
  ELSE numEntries

newDictTable(numEntries) ==
  LET n == roundSize(numEntries)
      hashed == n > maxDictWithoutHashSize
  IN  [used    |-> 0,
       fill    |-> 0,
       capa    |-> n,
       mask    |-> IF hashed THEN n * 2 - 1 ELSE 0,
       indices |-> IF hashed THEN [i \in 1..(n * 2) |-> 0] ELSE <<>>,
       entries |-> [k \in 1..n |-> zeroEntry]]

\* The slot insertAbsentEntry's probe loop stops at: the first zero slot.
RECURSIVE probeZero(_, _, _, _)
probeZero(t, i, perturb, index) ==
  IF t.indices[index + 1] = 0 THEN index
  ELSE Only({ probeZero(t, nx[1], nx[2], BitAnd(nx[1], t.mask)) :
                nx \in {dictNextIndex(i, perturb)} })

\* insertAbsentEntry on a table no reader can reach yet; "overrun" is the
\* panic of a full table.
insertAbsentEntry(t, entry) ==
  IF t.fill = t.capa THEN [panic |-> "overrun", table |-> t]
  ELSE
    LET i == BitAnd(Uint32Of(UintOf(entry.hash)), t.mask)
        index == probeZero(t, i, UintOf(entry.hash), i)
        ind == IF t.mask # 0
               THEN [t.indices EXCEPT ![index + 1] = t.fill + 1]
               ELSE t.indices
    IN  [panic |-> "",
         table |-> [t EXCEPT !.indices = ind,
                             !.entries[t.fill + 1] = entry,
                             !.used = t.used + 1,
                             !.fill = t.fill + 1]]
\* One iteration of lookupEntry's loop. A cursor is the loop's registers:
\* eidx for the reverse scan of a table without indices, (i, perturb,
\* index) for the probe of a hashed one.
\* (a scan that starts one entry too low)
lookupStartBelowLast(t, hash) ==
  IF t.mask = 0
  THEN [i |-> 0, perturb |-> <<>>, index |-> 0,
        eidx |-> IF t.fill > 0 THEN t.fill - 1 ELSE 0]
  ELSE LET i == BitAnd(Uint32Of(UintOf(hash)), t.mask)
       IN  [i |-> i, perturb |-> UintOf(hash), index |-> BitAnd(i, t.mask), eidx |-> 0]
lookupStart(t, hash) ==
  IF t.mask = 0
  THEN [i |-> 0, perturb |-> <<>>, index |-> 0, eidx |-> t.fill]
  ELSE LET i == BitAnd(Uint32Of(UintOf(hash)), t.mask)
       IN  [i |-> i, perturb |-> UintOf(hash), index |-> BitAnd(i, t.mask), eidx |-> 0]

\* The entry position the iteration at cursor c looks at (nil: none).
lookupAt(t, c) ==
  IF t.mask = 0 THEN c.eidx ELSE t.indices[c.index + 1]

\* Whether the iteration at cursor c calls Eq (the user's callback).
lookupCallsEq(t, c, hash) ==
  lookupAt(t, c) # nil /\ t.entries[lookupAt(t, c)].hash = hash

\* entry.hash == hash, then Eq(entry.key, key) and IsTrue of its result.
entryMatchesIdentity(entry, hash, key) == entry.hash = hash /\ entry.key = key
entryMatches(entry, hash, key) == entry.hash = hash /\ Eq(entry.key, key)

lookupStep(t, c, hash, key) ==
  LET pos == lookupAt(t, c)
  IN  IF pos = nil
      THEN [index |-> c.index, entry |-> nil, done |-> TRUE, cur |-> c]
      ELSE IF entryMatches(t.entries[pos], hash, key)
      THEN [index |-> c.index, entry |-> pos, done |-> TRUE, cur |-> c]
      ELSE IF t.mask = 0
      THEN [index |-> 0, entry |-> nil, done |-> FALSE,
            cur |-> [c EXCEPT !.eidx = c.eidx - 1]]
      ELSE LET nx == dictNextIndex(c.i, c.perturb)
           IN  [index |-> 0, entry |-> nil, done |-> FALSE,
                cur |-> [c EXCEPT !.i = nx[1], !.perturb = nx[2],
                                  !.index = BitAnd(nx[1], t.mask)]]

RECURSIVE lookupRun(_, _, _, _)
lookupRun(t, c, hash, key) ==
  Only({ IF r.done THEN [index |-> r.index, entry |-> r.entry]
         ELSE lookupRun(t, r.cur, hash, key) :
           r \in {lookupStep(t, c, hash, key)} })

\* lookupEntry with callbacks that do nothing but compare.
lookupEntry(tables, tp, hash, key) ==
  IF tp = nil THEN [index |-> 0, entry |-> nil]
  ELSE lookupRun(tables[tp], lookupStart(tables[tp], hash), hash, key)

\* ------------------------------------------------------ memory writes
\* A write to shared memory: one atomic store or add, or one word of a
\* plain struct copy. tp is the table written, pos the entry, val the
\* value stored or added, tbl the table published by storeTable.
MemOp(op, tp, pos, val, tbl) ==
  [pos |-> pos, tp |-> tp, op |-> op, val |-> val, tbl |-> tbl]
noTable == <<>>

storeIndex(tp, i, idx) == MemOp("storeIndex", tp, i, idx, noTable)
incUsed(tp, n) == MemOp("incUsed", tp, 0, n, noTable)
incFill(tp, n) == MemOp("incFill", tp, 0, n, noTable)
storeValue(tp, pos, o) == MemOp("storeValue", tp, pos, o, noTable)
storeTable(table) == MemOp("storeTable", 0, 0, 0, <<table>>)
incVersion == MemOp("incVersion", 0, 0, 0, noTable)
\* t.entries[eidx] = *nentry: three words.
copyEntry(tp, pos, e) ==
  << MemOp("entryHash", tp, pos, e.hash, noTable),
     MemOp("entryKey", tp, pos, e.key, noTable),
     MemOp("entryValue", tp, pos, e.value, noTable) >>

writeNewEntryPublishFirst(t, tp, index, nentry) ==
  (IF t.mask # 0 THEN <<storeIndex(tp, index, t.fill + 1)>> ELSE <<>>)
  \o <<incUsed(tp, 1), incFill(tp, 1)>>
  \o copyEntry(tp, t.fill + 1, nentry)
\* (fill incremented before used)
writeNewEntryFillFirst(t, tp, index, nentry) ==
  copyEntry(tp, t.fill + 1, nentry)
  \o (IF t.mask # 0 THEN <<storeIndex(tp, index, t.fill + 1)>> ELSE <<>>)
  \o <<incFill(tp, 1), incUsed(tp, 1)>>
writeNewEntryNoIndex(t, tp, index, nentry) ==
  copyEntry(tp, t.fill + 1, nentry) \o <<incUsed(tp, 1), incFill(tp, 1)>>
writeNewEntry(t, tp, index, nentry) ==
  LET eidx == t.fill
  IN  copyEntry(tp, eidx + 1, nentry)
      \o (IF t.mask # 0 THEN <<storeIndex(tp, index, eidx + 1)>> ELSE <<>>)
      \o <<incUsed(tp, 1), incFill(tp, 1)>>

writeValueInTwoStores(tp, pos, value) ==
  <<storeValue(tp, pos, nil), storeValue(tp, pos, value)>>
  \o (IF value = nil THEN <<incUsed(tp, 0 - 1)>> ELSE <<>>)
writeValueNoCount(tp, pos, value) == <<storeValue(tp, pos, value)>>
writeValue(tp, pos, value) ==
  <<storeValue(tp, pos, value)>>
  \o (IF value = nil THEN <<incUsed(tp, 0 - 1)>> ELSE <<>>)

\* (a full table always doubled, never compacted)
growSizeDoubles(used, capa) ==
  IF capa <= maxDictSize \div 2 THEN [n |-> capa * 2, ok |-> TRUE]
  ELSE [n |-> 0, ok |-> FALSE]
\* (doubling refused one capacity too early)
growSizeBelowHalf(used, capa) ==
  IF used < capa \div 2 THEN [n |-> used * 2, ok |-> TRUE]
  ELSE IF capa < maxDictSize \div 2 THEN [n |-> capa * 2, ok |-> TRUE]
  ELSE [n |-> 0, ok |-> FALSE]
\* growTable's choice of the size it asks newDictTable for.
growSize(used, capa) ==
  IF used < capa \div 2 THEN [n |-> used * 2, ok |-> TRUE]
  ELSE IF capa <= maxDictSize \div 2 THEN [n |-> capa * 2, ok |-> TRUE]
  ELSE [n |-> 0, ok |-> FALSE]

RECURSIVE growCopy(_, _, _)
growCopy(t, newTable, i) ==
  IF i > t.capa \/ newTable.panic # "" THEN newTable
  ELSE IF t.entries[i].value # nil
  THEN Only({ growCopy(t, nt, i + 1) :
                nt \in {insertAbsentEntry(newTable.table, t.entries[i])} })
  ELSE growCopy(t, newTable, i + 1)

growTable(tables, tp) ==
  IF tp = nil THEN [panic |-> "", table |-> newDictTable(0), ok |-> TRUE]
  ELSE Only({ IF ~g.ok THEN [panic |-> "", table |-> t, ok |-> FALSE]
              ELSE Only({ [panic |-> r.panic, table |-> r.table, ok |-> TRUE] :
                          r \in {growCopy(t, [panic |-> "",
                                              table |-> newDictTable(g.n)], 1)} }) :
              t \in {tables[tp]},
              g \in {growSize(tables[tp].used, tables[tp].capa)} })
\* ------------------------------------------------------------ Dict
\* The memory of one Dict: the heap of tables, d.table and d.version.
NewDict == [table |-> nil, tables |-> <<>>, version |-> 0]
\* dictNew: the dict a Python-level dict() call starts from.
dictNew == [table |-> 1, tables |-> <<newDictTable(0)>>, version |-> 0]

\* The effect of one memory write on the Dict's memory.
Exec(S, m) ==
  CASE m.op = "entryHash" ->
         [S EXCEPT !.tables[m.tp].entries[m.pos].hash = m.val]
    [] m.op = "entryKey" ->
         [S EXCEPT !.tables[m.tp].entries[m.pos].key = m.val]
    [] m.op = "entryValue" ->
         [S EXCEPT !.tables[m.tp].entries[m.pos].value = m.val]
    [] m.op = "storeValue" ->
         [S EXCEPT !.tables[m.tp].entries[m.pos].value = m.val]
    [] m.op = "storeIndex" ->
         [S EXCEPT !.tables[m.tp].indices[m.pos + 1] = m.val]
    [] m.op = "incUsed" ->
         [S EXCEPT !.tables[m.tp].used = S.tables[m.tp].used + m.val]
    [] m.op = "incFill" ->
         [S EXCEPT !.tables[m.tp].fill = S.tables[m.tp].fill + m.val]
    [] m.op = "storeTable" ->
         [S EXCEPT !.tables = Append(S.tables, m.tbl[1]),
                   !.table = Len(S.tables) + 1]
    [] m.op = "incVersion" ->
         [S EXCEPT !.version = S.version + 1]

RECURSIVE RunPlan(_, _)
RunPlan(S, plan) ==
  IF plan = <<>> THEN S
  ELSE Only({ RunPlan(s, Tail(plan)) : s \in {Exec(S, Head(plan))} })

errResultTooLarge == "OverflowError: result too large"
errChangedDuringWrite == "RuntimeError: dictionary changed during write"
errChangedDuringIteration == "RuntimeError: dictionary changed during iteration"
errPopItemEmpty == "KeyError: popitem(): dictionary is empty"
errStopIteration == "StopIteration"
panicDownsizing == "panic: some unknown error on downsizing dictionary"
panicNilTable == "panic: nil pointer dereference"
panicNoItem == "panic: there shall be at least one item"

\* putItem's `entry == nil || entry.value == nil`: the key was never
\* inserted, or it was deleted.
\* (a deleted entry taken for a present one)
entryIsAbsentNeverWritten(t, look) == look.entry = nil
entryIsAbsent(t, look) == look.entry = nil \/ t.entries[look.entry].value = nil
\* putItem's test after a delete: few live entries among many dead.
\* (a rebuild already when used has come down to capa / 8)
downsizeNeededAtEighth(t) ==
  t.used <= t.capa \div 8 /\ t.fill > (t.capa \div 8) * 5
downsizeNeeded(t) ==
  t.used < t.capa \div 8 /\ t.fill > (t.capa \div 8) * 5

\* putItem from its version check on (lines 502-551): tp is the table it
\* snapshotted, look what its lookupEntry returned. The result is the
\* memory writes it makes, in order, what it returns, what it raises and
\* how many times it calls d.mutex.Unlock on its way out.
putItemWrite(S, tp, look, hashv, key, value, overwrite) ==
  LET t == S.tables[tp]
      nentry == dictEntry(hashv, key, value)
      none == [plan |-> <<>>, ret |-> nil, raised |-> "", unlocks |-> 1]
  IN  IF entryIsAbsent(t, look)
      THEN
        IF value = nil THEN none
        ELSE IF tp = nil \/ t.fill = S.tables[S.table].capa
        THEN Only({
               IF ~g.ok THEN [none EXCEPT !.raised = errResultTooLarge]
               ELSE IF g.panic # ""
               THEN [none EXCEPT !.raised = "panic: " \o g.panic, !.unlocks = 0]
               ELSE Only({
                      IF ins.panic # ""
                      THEN [none EXCEPT !.raised = "panic: " \o ins.panic, !.unlocks = 0]
                      ELSE [none EXCEPT !.plan = <<storeTable(ins.table), incVersion>>] :
                      ins \in {insertAbsentEntry(g.table, nentry)} }) :
               g \in {growTable(S.tables, S.table)} })
        ELSE [none EXCEPT
                !.plan = writeNewEntry(t, tp, look.index, nentry) \o <<incVersion>>]
      ELSE
        LET originValue == t.entries[look.entry].value
            wv == writeValue(tp, look.entry, value)
        IN  IF ~overwrite THEN [none EXCEPT !.ret = originValue]
            ELSE Only({
                   IF value = nil /\ downsizeNeeded(t2)
                   THEN Only({
                          IF g.ok /\ g.panic = ""
                          THEN [plan |-> wv \o <<incVersion, storeTable(g.table)>>,
                                ret |-> originValue, raised |-> "", unlocks |-> 1]
                          ELSE [plan |-> wv \o <<incVersion>>,
                                ret |-> originValue, raised |-> panicDownsizing,
                                unlocks |-> 1] :
                          g \in {growTable(<<t2>>, 1)} })
                   ELSE [plan |-> wv \o <<incVersion>>, ret |-> originValue,
                         raised |-> "", unlocks |-> 1] :
                   t2 \in {RunPlan(S, wv).tables[tp]} })

\* putItem's `v != d.version`.
changedDuringWriteIgnored(S, v) == FALSE
changedDuringWrite(S, v) == v # S.version
\* What putItem does when it is: Unlock, and the RuntimeError.
\* (a return that leaves d.mutex locked)
raiseChangedDuringWriteLocked ==
  [plan |-> <<>>, ret |-> nil, raised |-> errChangedDuringWrite, unlocks |-> 0]
raiseChangedDuringWrite ==
  [plan |-> <<>>, ret |-> nil, raised |-> errChangedDuringWrite, unlocks |-> 1]

\* putItem with a hash and an equality that do nothing but hash and
\* compare: its memory writes in order, what it returns and raises.
putItem(S, key, value, overwrite) ==
  LET hashv == Hash(key)
      tp == S.table
      v == S.version
  IN  Only({
        IF changedDuringWrite(S, v)
        THEN raiseChangedDuringWrite
        ELSE putItemWrite(S, tp, look, hashv, key, value, overwrite) :
        look \in {lookupEntry(S.tables, tp, hashv, key)} })

GetItem(S, key) ==
  Only({ IF look.entry # nil THEN S.tables[S.table].entries[look.entry].value
         ELSE nil :
         look \in {lookupEntry(S.tables, S.table, Hash(key), key)} })

loadUsed(S, tp) == IF tp = nil THEN 0 ELSE S.tables[tp].used
loadFill(S, tp) == IF tp = nil THEN 0 ELSE S.tables[tp].fill
DictLen(S) == loadUsed(S, S.table)

\* The live entries of entries[0..fill), in position order.
RECURSIVE liveEntries(_, _)
liveEntries(t, k) ==
  IF k > t.fill THEN <<>>
  ELSE (IF t.entries[k].value # nil THEN <<t.entries[k]>> ELSE <<>>)
       \o liveEntries(t, k + 1)

\* (a walk that does not skip the entries with a nil value)
KeysWithTombstones(S) ==
  IF S.table = nil THEN <<>>
  ELSE [j \in 1..S.tables[S.table].fill |-> S.tables[S.table].entries[j].key]
Keys(S) ==
  IF S.table = nil THEN <<>>
  ELSE LET live == liveEntries(S.tables[S.table], 1)
       IN  [j \in 1..Len(live) |-> live[j].key]

\* The position of dictPopItem's last live entry (0: none).
\* (a scan that stops at a tombstone)
lastLiveNoSkip(t, i) ==
  IF i = 0 THEN 0 ELSE IF t.entries[i].value # nil THEN i ELSE 0
RECURSIVE lastLive(_, _)
lastLive(t, i) ==
  IF i = 0 THEN 0 ELSE IF t.entries[i].value # nil THEN i ELSE lastLive(t, i - 1)

\* dictPopItem's writes once it has found its entry.
\* (no d.incVersion())
popItemWritesNoVersion(tp, i) == <<storeValue(tp, i, nil), incUsed(tp, 0 - 1)>>
popItemWrites(tp, i) == <<storeValue(tp, i, nil), incUsed(tp, 0 - 1), incVersion>>

dictPopItem(S) ==
  IF S.table = nil
  THEN [plan |-> <<>>, ret |-> <<>>, raised |-> panicNilTable,
                 unlocks |-> 1]
  ELSE LET t == S.tables[S.table]
           i == lastLive(t, t.fill)
       IN  IF t.used = 0
           THEN [plan |-> <<>>, ret |-> <<>>, raised |-> errPopItemEmpty,
                 unlocks |-> 1]
           ELSE IF i = 0
           THEN [plan |-> <<>>, ret |-> <<>>, raised |-> panicNoItem,
                 unlocks |-> 1]
           ELSE [plan |-> popItemWrites(S.table, i),
                 ret |-> <<t.entries[i].key, t.entries[i].value>>,
                 raised |-> "", unlocks |-> 1]

\* (a fresh table of twice the minimum capacity)
dictClearRoomy == <<storeTable(newDictTable(2 * minDictSize)), incVersion>>
\* (a new table without d.incVersion())
dictClearNoVersion == <<storeTable(newDictTable(0))>>
dictClear == <<storeTable(newDictTable(0)), incVersion>>
\* ------------------------------------------------------------ iterators
\* newDict{Key,Value,Item}Iterator: a dictEntryIterator and a version guard.
newDictIterator(S) == [index |-> 0, table |-> S.table, version |-> S.version]

\* dictEntryIterator.next from position index on: the iterator's new index
\* and the entry position it returns (0: no more elements).
RECURSIVE entryIteratorNext(_, _, _)
entryIteratorNext(t, index, filled) ==
  IF index >= filled THEN [index |-> index, pos |-> 0]
  ELSE IF t.entries[index + 1].value # nil THEN [index |-> index + 1, pos |-> index + 1]
  ELSE entryIteratorNext(t, index + 1, filled)

\* (CPython's order: an exhausted iterator stops whatever the version)
dictIteratorNextStopFirst(S, it, n) ==
  IF n.pos = 0
  THEN [key |-> nil, value |-> nil, raised |-> errStopIteration]
  ELSE IF S.version # it.version
  THEN [key |-> nil, value |-> nil, raised |-> errChangedDuringIteration]
  ELSE [key |-> S.tables[it.table].entries[n.pos].key,
        value |-> S.tables[it.table].entries[n.pos].value,
        raised |-> ""]
dictIteratorNextChecks(S, it, n) ==
  IF S.version # it.version
  THEN [key |-> nil, value |-> nil, raised |-> errChangedDuringIteration]
  ELSE IF n.pos = 0
  THEN [key |-> nil, value |-> nil, raised |-> errStopIteration]
  ELSE [key |-> S.tables[it.table].entries[n.pos].key,
        value |-> S.tables[it.table].entries[n.pos].value,
        raised |-> ""]

dictIteratorNext(S, it) ==
  Only({ [iter |-> [it EXCEPT !.index = n.index],
          out |-> dictIteratorNextChecks(S, it, n)] :
         n \in { IF it.table = nil THEN [index |-> it.index, pos |-> 0]
                 ELSE entryIteratorNext(S.tables[it.table], it.index,
                                        loadFill(S, it.table)) } })

\* ------------------------------------------------------------ operations
\* One call of the public surface by a thread that is alone: what it does
\* to the memory and what it returns.
Call(op, key, val) == [key |-> key, op |-> op, val |-> val]
Result(S, ret, raised, unlocks) ==
  [ret |-> ret, raised |-> raised, unlocks |-> unlocks, state |-> S]

\* What dictSetDefault returns: putItem's originValue, or the default.
\* (the default, whatever was there)
setDefaultResultAlwaysDefault(originValue, value) == value
setDefaultResult(originValue, value) ==
  IF originValue # nil THEN originValue ELSE value

\* What DelItem returns: whether putItem gave back a value.
\* (true whatever putItem found)
delItemResultAlwaysTrue(originValue) == TRUE
delItemResult(originValue) == originValue # nil

CallPlan(S, c) ==
  CASE c.op \in {"set", "delete", "pop", "setdefault"} ->
         Only({ [plan |-> w.plan,
                 ret |-> CASE c.op = "set" -> <<>>
                           [] c.op = "delete" -> <<delItemResult(w.ret)>>
                           [] c.op = "pop" -> <<w.ret>>
                           [] c.op = "setdefault" ->
                                <<setDefaultResult(w.ret, c.val)>>,
                 raised |-> w.raised, unlocks |-> w.unlocks] :
                w \in {putItem(S, c.key,
                                   IF c.op \in {"delete", "pop"} THEN nil ELSE c.val,
                                   c.op # "setdefault")} })
    [] c.op = "popitem" -> dictPopItem(S)
    [] c.op = "clear" ->
         [plan |-> dictClear, ret |-> <<>>, raised |-> "", unlocks |-> 1]

Perform(S, c) ==
  Only({ Result(RunPlan(S, w.plan), w.ret, w.raised, w.unlocks) :
         w \in {CallPlan(S, c)} })

\* ------------------------------------------------- the reference map
\* What a plain ordered map does with a call: map gives each key class its
\* value (nil: absent), order lists the present classes, oldest insertion
\* first; changed says whether the call is one that changes content.
RefEmpty == [map |-> [c \in Classes |-> nil], order |-> <<>>]
Without(seq, c) == SelectSeq(seq, LAMBDA x : x # c)
RefSet(R, k, v) ==
  [map |-> [R.map EXCEPT ![Cls(k)] = v],
   order |-> IF R.map[Cls(k)] = nil THEN Append(R.order, Cls(k)) ELSE R.order,
   changed |-> TRUE]
RefRemove(R, c) ==
  [map |-> [R.map EXCEPT ![c] = nil], order |-> Without(R.order, c),
   changed |-> R.map[c] # nil]
RefPerform(R, c) ==
  CASE c.op = "set" -> RefSet(R, c.key, c.val)
    [] c.op \in {"delete", "pop"} -> RefRemove(R, Cls(c.key))
    [] c.op = "setdefault" ->
         IF R.map[Cls(c.key)] = nil THEN RefSet(R, c.key, c.val)
         ELSE [map |-> R.map, order |-> R.order, changed |-> FALSE]
    [] c.op = "popitem" ->
         IF R.order = <<>> THEN [map |-> R.map, order |-> R.order, changed |-> FALSE]
         ELSE RefRemove(R, R.order[Len(R.order)])
    [] c.op = "clear" ->
         [map |-> RefEmpty.map, order |-> <<>>, changed |-> TRUE]

\* ------------------------------------------------- recursiveMutex
\* Dict.mutex: the thread that holds it (0: none) and how many times.
freeMutex == [owner |-> 0, depth |-> 0]
CanLock(m, t) == m.depth = 0 \/ m.owner = t
Lock(m, t) == [owner |-> t, depth |-> m.depth + 1]
Unlock(m) ==
  IF m.depth <= 1 THEN freeMutex ELSE [owner |-> m.owner, depth |-> m.depth - 1]
Unlocks(m, n) == IF n = 0 THEN m ELSE Unlock(m)
\* A call's Lock and the Unlocks of its way out.
LockedCall(m, t, unlocks) == Unlocks(Lock(m, t), unlocks)

\* ------------------------------------------------------------ state
VARIABLES
  mem,    \* the Dict's memory: [tables, table, version]
  ref,    \* the reference map the same calls were made on: [map, order]
  iter,   \* one iterator over the Dict, and what its last next() did
  wr,     \* the thread that writes one memory word at a time
  rd,     \* the thread that reads without the lock
  re,     \* the call whose Hash and Eq callbacks call the Dict again
  last,   \* the last call and its outcome
  nops,   \* calls made so far
  mu,     \* the mutexes of this Dict (1) and of the other one (2)
  oth,    \* another Dict: its memory and its reference map
  th,     \* the threads that work on the two Dicts
  full,   \* the insert into a full table, and the size growTable chose
  kc,     \* the thread that calls Keys() without the lock
  pr      \* one probe of a table with indices: the loop's registers

vars == <<mem, ref, iter, wr, rd, re, last, nops, mu, oth, th, full, kc, pr>>

Dicts == {1, 2}
Main == 1

MaxOps == 3
MaxNexts == 2
MaxIterOps == 2
MaxConcOps == 2
MaxGets == 1
MaxReentOps == 1
MaxNested == 1

\* Programs run before the first state: each is a sequence of calls made
\* on NewDict() (or on dictNew's table), so every start is a state the
\* code reaches. They bring the table to the sizes whose next call grows,
\* compacts or allocates indices.
SetAll(ks) == [j \in 1..Len(ks) |-> Call("set", ks[j], 1)]
DelAll(ks) == [j \in 1..Len(ks) |-> Call("delete", ks[j], nil)]
Churn(k, n) == [j \in 1..(2 * n) |->
                  IF j % 2 = 1 THEN Call("delete", k, nil) ELSE Call("set", k, 2)]
Prefixes ==
  LET full8 == SetAll(<<1, 2, 3, 4, 5>>) \o Churn(5, 3)
      hashed == full8 \o Churn(5, 1)
  IN  { <<>>,
        full8,
        full8 \o DelAll(<<5>>),
        SetAll(<<1, 2, 3, 4, 5>>) \o Churn(5, 1) \o DelAll(<<1, 2, 3>>),
        hashed,
        hashed \o Churn(3, 1) \o Churn(6, 4) \o DelAll(<<2, 4, 5>>),
        hashed \o Churn(2, 5) }

RECURSIVE RunCalls(_, _, _)
RunCalls(S, R, calls) ==
  IF calls = <<>> THEN [mem |-> S, ref |-> [map |-> R.map, order |-> R.order]]
  ELSE Only({ RunCalls(s, r, Tail(calls)) :
                s \in {Perform(S, Head(calls)).state},
                r \in {RefPerform(R, Head(calls))} })

Starts == { RunCalls(d, RefEmpty, p) : d \in {NewDict, dictNew}, p \in Prefixes }

noOut == [key |-> nil, value |-> nil, raised |-> "none"]
noIter == [it |-> newDictIterator(NewDict), out |-> noOut, active |-> FALSE,
           nexts |-> 0, modified |-> FALSE, outModified |-> FALSE,
           stopped |-> FALSE, born |-> RefEmpty.map]
noCall == [ret |-> <<>>, raised |-> "", call |-> Call("none", nil, nil)]
noCursor == [i |-> 0, perturb |-> <<>>, index |-> 0, eidx |-> 0]
\* re.hashChanged, re.eqChanged, re.wrote (history): whether a call made
\* by the Hash callback, by an Eq callback, changed the content; whether
\* the outer call wrote to the Dict's memory.
noReent == [t |-> nil, cur |-> noCursor, look |-> [index |-> 0, entry |-> nil],
            raised |-> "", v |-> 0, call |-> noCall.call, pc |-> "idle",
            nested |-> 0, hashChanged |-> FALSE, eqChanged |-> FALSE,
            returned |-> FALSE, wrote |-> FALSE]
\* wr.stored (history): the values ever stored for each key class.
noWriter == [plan |-> <<>>, ret |-> <<>>, raised |-> "", unlocks |-> 0,
             call |-> noCall.call, pc |-> "idle", stored |-> [c \in Classes |-> {}]]
noOther == [mem |-> NewDict, ref |-> [map |-> RefEmpty.map, order |-> <<>>]]
noThreads == <<>>
noKeys == [k |-> 0, used |-> 0, fill |-> 0, table |-> nil, calls |-> 0,
           pc |-> "idle", keys |-> <<>>]
\* pr.occ: the slots of indices that are not zero; pr.visited (history):
\* the slots the probe has loaded; pr.stopped, pr.stop: whether and where
\* the loop has found a zero slot.
noProbe == [hash |-> 0, i |-> 0, perturb |-> <<>>, mask |-> 0, index |-> 0,
            stopped |-> FALSE, pc |-> "idle", occ |-> {}, visited |-> {},
            stop |-> 0, steps |-> 0]
noFull == [key |-> nil, used |-> 0, capa |-> 0, val |-> nil, pc |-> "idle",
           newCapa |-> 0]
\* rd.torn, rd.hist, rd.now (history): whether the reader looked at an
\* entry not fully written; the values its key had in the map at the
\* moments since its get began (a call takes effect at some moment
\* between its start and its return); those at its value load.
noReader == [key |-> nil, entry |-> nil, table |-> nil, cur |-> noCursor,
             pc |-> "idle", res |-> nil, loaded |-> FALSE, torn |-> FALSE,
             hist |-> {}, now |-> {}, gets |-> 0]

Init ==
  /\ \E s \in Starts : mem = s.mem /\ ref = s.ref
  /\ iter = noIter
  /\ wr = [noWriter EXCEPT !.stored = [c \in Classes |-> {ref.map[c]} \ {nil}]]
  /\ rd = noReader
  /\ re = noReent
  /\ last = noCall
  /\ nops = 0
  /\ mu = [d \in Dicts |-> freeMutex]
  /\ oth = noOther
  /\ th = noThreads
  /\ full = noFull
  /\ kc = noKeys
  /\ pr = noProbe

\* A call by the one thread.
Do(c, max) ==
  /\ nops < max
  /\ CanLock(mu[1], Main)
  /\ nops' = nops + 1
  /\ \E r \in {Perform(mem, c)}, q \in {RefPerform(ref, c)} :
       /\ mem' = r.state
       /\ mu' = [mu EXCEPT ![1] = LockedCall(mu[1], Main, r.unlocks)]
       /\ ref' = [map |-> q.map, order |-> q.order]
       /\ last' = [ret |-> r.ret, raised |-> r.raised, call |-> c]
       /\ iter' = [iter EXCEPT !.modified = iter.active /\ (iter.modified \/ q.changed)]
  /\ UNCHANGED <<wr, rd, re, oth, th, full, kc, pr>>

Set(k, v) == Do(Call("set", k, v), MaxOps)
Delete(k) == Do(Call("delete", k, nil), MaxOps)
PopKey(k) == Do(Call("pop", k, nil), MaxOps)
SetDefault(k, v) == Do(Call("setdefault", k, v), MaxOps)
PopItem == Do(Call("popitem", nil, nil), MaxOps)
Clear == Do(Call("clear", nil, nil), MaxOps)

\* dictIter, dictIterItems, dictIterValues: a new iterator.
Iter ==
  /\ ~iter.active
  /\ CanLock(mu[1], Main)
  /\ iter' = [noIter EXCEPT !.active = TRUE, !.it = newDictIterator(mem)]
  /\ mu' = [mu EXCEPT ![1] = LockedCall(mu[1], Main, 1)]
  /\ UNCHANGED <<mem, ref, wr, rd, re, last, nops, oth, th, full, kc, pr>>

\* next() on the iterator.
IterNext ==
  /\ iter.active
  /\ iter.nexts < MaxNexts
  /\ \E r \in {dictIteratorNext(mem, iter.it)} :
       iter' = [iter EXCEPT !.it = r.iter, !.out = r.out,
                            !.nexts = iter.nexts + 1,
                            !.outModified = iter.modified,
                            !.stopped = iter.stopped
                               \/ (~iter.modified /\ r.out.raised = errStopIteration)]
  /\ UNCHANGED <<mem, ref, wr, rd, re, last, nops, mu, oth, th, full, kc, pr>>

Next ==
  \/ \E k \in KeyObjs, v \in Values : Set(k, v)
  \/ \E k \in KeyObjs : Delete(k)
  \/ \E k \in KeyObjs : PopKey(k)
  \/ \E k \in KeyObjs, v \in Values : SetDefault(k, v)
  \/ PopItem
  \/ Clear

\* One thread making calls on a Dict.
Spec == Init /\ [][Next]_vars

Calls ==
  {Call("set", k, v) : k \in KeyObjs, v \in Values}
    \cup {Call("setdefault", k, v) : k \in KeyObjs, v \in Values}
    \cup {Call(op, k, nil) : op \in {"delete", "pop"}, k \in KeyObjs}
    \cup {Call("popitem", nil, nil), Call("clear", nil, nil)}

NextIter ==
  \/ \E c \in Calls : Do(c, MaxIterOps)
  \/ Iter
  \/ IterNext

\* One thread making calls on a Dict and iterating over it.
SpecIter == Init /\ [][NextIter]_vars
\* ------------------------------------------- re-entrant callbacks
\* putItem with a key whose __hash__ and __eq__ are user code: the code
\* may call the same Dict (d.mutex is recursive) and may raise.
errFromCallback == "exception raised by the callback"
PutCalls == {c \in Calls : c.op \in {"set", "delete", "pop", "setdefault"}}
putValue(c) == IF c.op \in {"delete", "pop"} THEN nil ELSE c.val
putOverwrite(c) == c.op # "setdefault"

\* putItem is entered and calls Hash(f, key).
ECall(c) ==
  /\ re.pc = "idle"
  /\ nops < MaxReentOps
  /\ nops' = nops + 1
  /\ re' = [noReent EXCEPT !.pc = "hash", !.call = c]
  /\ UNCHANGED <<mem, ref, iter, wr, rd, last, mu, oth, th, full, kc, pr>>

\* The callback in progress makes call n on the Dict, all of it.
ENested(n) ==
  /\ re.pc \in {"hash", "eq"}
  /\ re.nested < MaxNested
  /\ \E r \in {Perform(mem, n)}, q \in {RefPerform(ref, n)} :
       /\ mem' = r.state
       /\ ref' = [map |-> q.map, order |-> q.order]
       /\ re' = [re EXCEPT !.nested = re.nested + 1,
                           !.hashChanged = @ \/ (re.pc = "hash" /\ q.changed),
                           !.eqChanged = @ \/ (re.pc = "eq" /\ q.changed)]
       /\ mu' = [mu EXCEPT ![1] = LockedCall(mu[1], Main, r.unlocks)]
  /\ UNCHANGED <<iter, wr, rd, last, nops, oth, th, full, kc, pr>>

\* Hash returns; d.mutex.Lock, t := d.table, v := d.version, and
\* lookupEntry up to its loop.
EHashReturn ==
  /\ re.pc = "hash"
  /\ CanLock(mu[1], Main)
  /\ re' = [re EXCEPT !.pc = IF mem.table = nil THEN "check" ELSE "probe",
                      !.t = mem.table, !.v = mem.version,
                      !.cur = IF mem.table = nil THEN noCursor
                              ELSE lookupStart(mem.tables[mem.table], Hash(re.call.key))]
  /\ mu' = [mu EXCEPT ![1] = Lock(mu[1], Main)]
  /\ UNCHANGED <<mem, ref, iter, wr, rd, last, nops, oth, th, full, kc, pr>>

\* The callback raises: putItem returns what Hash raised (it has not
\* locked yet), or unlocks and returns what lookupEntry raised.
raisedByLookupUnlocks == 1
ERaise ==
  /\ re.pc \in {"hash", "eq"}
  /\ re' = [re EXCEPT !.pc = "idle", !.returned = TRUE, !.raised = errFromCallback]
  /\ last' = [ret |-> <<>>, raised |-> errFromCallback, call |-> re.call]
  /\ mu' = IF re.pc = "hash" THEN mu
           ELSE [mu EXCEPT ![1] = Unlocks(mu[1], raisedByLookupUnlocks)]
  /\ UNCHANGED <<mem, ref, iter, wr, rd, nops, oth, th, full, kc, pr>>

\* What lookupEntry's iteration does once it has Eq's answer, if it asks.
reentAfterStep(r) ==
  IF r.done
  THEN [re EXCEPT !.pc = "check", !.look = [index |-> r.index, entry |-> r.entry]]
  ELSE [re EXCEPT !.pc = "probe", !.cur = r.cur]

\* One iteration of lookupEntry's loop up to its call of Eq, or all of it
\* when the hashes differ.
EProbe ==
  /\ re.pc = "probe"
  /\ \E t \in {mem.tables[re.t]} :
       IF lookupCallsEq(t, re.cur, Hash(re.call.key))
       THEN re' = [re EXCEPT !.pc = "eq"]
       ELSE re' = reentAfterStep(lookupStep(t, re.cur, Hash(re.call.key), re.call.key))
  /\ UNCHANGED <<mem, ref, iter, wr, rd, last, nops, mu, oth, th, full, kc, pr>>

\* Eq returns its answer.
EEqReturn ==
  /\ re.pc = "eq"
  /\ re' = reentAfterStep(lookupStep(mem.tables[re.t], re.cur,
                                     Hash(re.call.key), re.call.key))
  /\ UNCHANGED <<mem, ref, iter, wr, rd, last, nops, mu, oth, th, full, kc, pr>>

\* putItem from `if v != d.version` on.
ECheck ==
  /\ re.pc = "check"
  /\ IF changedDuringWrite(mem, re.v)
     THEN /\ re' = [re EXCEPT !.pc = "idle", !.returned = TRUE,
                              !.raised = raiseChangedDuringWrite.raised]
          /\ last' = [ret |-> <<>>, raised |-> raiseChangedDuringWrite.raised,
                      call |-> re.call]
          /\ mu' = [mu EXCEPT ![1] = Unlocks(mu[1], raiseChangedDuringWrite.unlocks)]
          /\ UNCHANGED <<mem, ref, full, kc, pr>>
     ELSE \E w \in {putItemWrite(mem, re.t, re.look, Hash(re.call.key), re.call.key,
                                 putValue(re.call), putOverwrite(re.call))},
             q \in {RefPerform(ref, re.call)} :
            /\ mem' = RunPlan(mem, w.plan)
            /\ ref' = [map |-> q.map, order |-> q.order]
            /\ re' = [re EXCEPT !.pc = "idle", !.returned = TRUE,
                                !.raised = w.raised, !.wrote = w.plan # <<>>]
            /\ last' = [ret |-> <<w.ret>>, raised |-> w.raised, call |-> re.call]
            /\ mu' = [mu EXCEPT ![1] = Unlocks(mu[1], w.unlocks)]
  /\ UNCHANGED <<iter, wr, rd, nops, oth, th, full, kc, pr>>

NextReent ==
  \/ \E c \in PutCalls : ECall(c)
  \/ \E n \in Calls : ENested(n)
  \/ EHashReturn
  \/ ERaise
  \/ EProbe
  \/ EEqReturn
  \/ ECheck

\* One thread whose keys' callbacks call the Dict again.
SpecReent == Init /\ [][NextReent]_vars

\* ------------------------------------------------ writer and reader
\* The writer holds d.mutex from its call to its return, so writers are
\* one thread making one call after another. Its call reads under the
\* lock (version, table, lookupEntry), then makes its writes one at a
\* time; the reader's steps come between them.
inFlight == rd.pc \in {"start", "probe", "value"}

\* The values key k has in the map at this moment: the one before the
\* call in progress, and the one after it.
ValuesNow(k) ==
  {ref.map[Cls(k)]}
    \cup (IF wr.pc = "run" THEN {RefPerform(ref, wr.call).map[Cls(k)]} ELSE {})

WCall(c) ==
  /\ wr.pc = "idle"
  /\ nops < MaxConcOps
  /\ CanLock(mu[1], Main)
  /\ mu' = [mu EXCEPT ![1] = Lock(mu[1], Main)]
  /\ nops' = nops + 1
  /\ \E w \in {CallPlan(mem, c)} :
       wr' = [wr EXCEPT !.pc = "run", !.plan = w.plan, !.call = c,
                        !.ret = w.ret, !.raised = w.raised,
                        !.unlocks = w.unlocks,
                        !.stored =
                          IF c.op \in {"set", "setdefault"} /\ w.plan # <<>>
                          THEN [wr.stored EXCEPT ![Cls(c.key)] = @ \cup {c.val}]
                          ELSE wr.stored]
  /\ rd' = IF inFlight
           THEN [rd EXCEPT !.hist = @ \cup {RefPerform(ref, c).map[Cls(rd.key)]}]
           ELSE rd
  /\ UNCHANGED <<mem, ref, iter, re, last, oth, th, full, kc, pr>>

\* One write of the call in progress.
WStep ==
  /\ wr.pc = "run"
  /\ wr.plan # <<>>
  /\ mem' = Exec(mem, Head(wr.plan))
  /\ wr' = [wr EXCEPT !.plan = Tail(wr.plan)]
  /\ UNCHANGED <<ref, iter, rd, re, last, nops, mu, oth, th, full, kc, pr>>

\* The call returns (d.mutex.Unlock).
WReturn ==
  /\ wr.pc = "run"
  /\ wr.plan = <<>>
  /\ wr' = [wr EXCEPT !.pc = "idle"]
  /\ last' = [ret |-> wr.ret, raised |-> wr.raised, call |-> wr.call]
  /\ \E q \in {RefPerform(ref, wr.call)} :
       ref' = [map |-> q.map, order |-> q.order]
  /\ mu' = [mu EXCEPT ![1] = Unlocks(mu[1], wr.unlocks)]
  /\ UNCHANGED <<mem, iter, rd, re, nops, oth, th, full, kc, pr>>

\* Whether entries[pos-1] of table tp has all its words written.
Built(tp, pos) ==
  /\ mem.tables[tp].entries[pos].key # nil
  /\ \A j \in 1..Len(wr.plan) :
       ~(/\ wr.plan[j].op \in {"entryHash", "entryKey", "entryValue"}
         /\ wr.plan[j].tp = tp
         /\ wr.plan[j].pos = pos)

\* GetItem: Hash(f, key), then d.loadTable(); a nil table has no entry.
RGet(k) ==
  /\ rd.pc \in {"idle", "done"}
  /\ rd.gets < MaxGets
  /\ rd' = [noReader EXCEPT !.pc = IF mem.table = nil THEN "done" ELSE "start",
                            !.key = k, !.table = mem.table,
                            !.hist = ValuesNow(k),
                            !.gets = rd.gets + 1]
  /\ UNCHANGED <<mem, ref, iter, wr, re, last, nops, mu, oth, th, full, kc, pr>>

\* lookupEntry up to its loop: t.mask, and t.loadFill() or the first index.
RStart ==
  /\ rd.pc = "start"
  /\ rd' = [rd EXCEPT !.pc = "probe",
                      !.cur = lookupStart(mem.tables[rd.table], Hash(rd.key))]
  /\ UNCHANGED <<mem, ref, iter, wr, re, last, nops, mu, oth, th, full, kc, pr>>

\* One iteration of lookupEntry's loop: loadIndex (hashed), the reads of
\* entry.hash and entry.key, Eq. (The words of a built entry other than
\* its value are never written again, so the reads are one step.)
RProbe ==
  /\ rd.pc = "probe"
  /\ \E t \in {mem.tables[rd.table]} :
       \E pos \in {lookupAt(t, rd.cur)} :
         IF pos # nil /\ ~Built(rd.table, pos)
         THEN rd' = [rd EXCEPT !.pc = "done", !.torn = TRUE, !.entry = pos]
         ELSE \E r \in {lookupStep(t, rd.cur, Hash(rd.key), rd.key)} :
                rd' = IF ~r.done THEN [rd EXCEPT !.cur = r.cur]
                      ELSE IF r.entry = nil THEN [rd EXCEPT !.pc = "done"]
                      ELSE [rd EXCEPT !.pc = "value", !.entry = r.entry]
  /\ UNCHANGED <<mem, ref, iter, wr, re, last, nops, mu, oth, th, full, kc, pr>>

\* entry.loadValue(), and the return.
RValue ==
  /\ rd.pc = "value"
  /\ rd' = [rd EXCEPT !.pc = "done", !.loaded = TRUE,
                      !.res = mem.tables[rd.table].entries[rd.entry].value,
                      !.now = ValuesNow(rd.key)]
  /\ UNCHANGED <<mem, ref, iter, wr, re, last, nops, mu, oth, th, full, kc, pr>>

NextConc ==
  \/ \E c \in Calls : WCall(c)
  \/ WStep
  \/ WReturn
  \/ \E k \in KeyObjs : RGet(k)
  \/ RStart
  \/ RProbe
  \/ RValue

\* One thread writing and one thread reading the same Dict.
SpecConc == Init /\ [][NextConc]_vars

\* ------------------------------------------------ two Dicts, threads
\* Threads that call dictsAreEqual, Update, dictRepr and the write calls
\* on two Dicts: Dict 1 is (mem, ref), Dict 2 is oth. A write call runs
\* from its Lock to its Unlock in one step (it takes no other lock and
\* the other steps here read what it writes only through the version and
\* whole lookups); dictsAreEqual and Update are one step per lock
\* operation and per iteration.
Threads == {1, 2}
MaxSeqOps == 3
MaxPairOps == 2
MaxLockOps == 2

\* Eq(f, value, v) and IsTrue of the object model, on value objects.
EqValue(a, b) == a = b

DMem(x) == IF x = 1 THEN mem ELSE oth.mem
DRef(x) == IF x = 1 THEN ref ELSE oth.ref
PutDict(x, m, r) ==
  IF x = 1 THEN mem' = m /\ ref' = r /\ oth' = oth
  ELSE oth' = [mem |-> m, ref |-> r] /\ mem' = mem /\ ref' = ref

PairKeys == {1, 2, NumClasses + 1}
PairCalls ==
  {Call("set", k, v) : k \in PairKeys, v \in Values}
    \cup {Call("delete", k, nil) : k \in PairKeys}
    \cup {Call("popitem", nil, nil), Call("clear", nil, nil)}
LockPrefixes ==
  { <<>>,
    SetAll(<<1, 2>>),
    <<Call("set", 2, 1), Call("set", 3, 2), Call("delete", 3, nil),
      Call("set", NumClasses + 1, 1)>> }
PairPrefixes ==
  LockPrefixes
    \cup { SetAll(<<1, 2, 3, 4, 5>>) \o Churn(5, 4) \o DelAll(<<3, 4, 5>>) }
PairStarts == { RunCalls(NewDict, RefEmpty, p) : p \in PairPrefixes }
LockStarts == { RunCalls(NewDict, RefEmpty, p) : p \in LockPrefixes }

\* th[t].seen (history): what the dictsAreEqual calls made since the last
\* write returned, by pair of Dicts; th[t].pre: the two maps when the
\* Update began; th[t].changed: whether a version differed from its
\* guard when dictsAreEqual returned.
noSeen == [p \in Dicts \X Dicts |-> "none"]
idleThread ==
  [x |-> 0, op |-> "none", raised |-> "", it |-> newDictIterator(NewDict),
   changed |-> FALSE, pc |-> "idle", res |-> FALSE, y |-> 0, g1 |-> 0,
   g2 |-> 0, len1 |-> 0, len2 |-> 0, item |-> <<>>,
   pre |-> <<>>, seen |-> noSeen, fin |-> "none"]

InitFrom(starts) ==
  /\ \E s \in starts : mem = s.mem /\ ref = s.ref
  /\ \E s \in starts : oth = s
  /\ iter = noIter
  /\ wr = noWriter
  /\ rd = noReader
  /\ re = noReent
  /\ last = noCall
  /\ nops = 0
  /\ mu = [d \in Dicts |-> freeMutex]
  /\ th = [t \in Threads |-> idleThread]
  /\ full = noFull
  /\ kc = noKeys
  /\ pr = noProbe
InitPair == InitFrom(PairStarts)
InitLocks == InitFrom(LockStarts)

StartOp(t, op, x, y) ==
  [idleThread EXCEPT !.op = op, !.x = x, !.y = y, !.seen = th[t].seen]
\* The thread's call returns.
Finished(r) ==
  [r EXCEPT !.pc = "idle", !.fin = r.op,
            !.seen = IF r.op # "equal" THEN r.seen
                     ELSE [r.seen EXCEPT ![<<r.x, r.y>>] =
                             IF r.raised # "" THEN "error"
                             ELSE IF r.res THEN "true" ELSE "false"]]
\* The threads once a write call has returned.
Forget(T) == [u \in Threads |-> [T[u] EXCEPT !.seen = noSeen]]

\* A write call on Dict x, from its Lock to its Unlock.
TCall(t, x, c, max) ==
  /\ th[t].pc = "idle"
  /\ nops < max
  /\ CanLock(mu[x], t)
  /\ nops' = nops + 1
  /\ \E r \in {Perform(DMem(x), c)}, q \in {RefPerform(DRef(x), c)} :
       /\ PutDict(x, r.state, [map |-> q.map, order |-> q.order])
       /\ mu' = [mu EXCEPT ![x] = LockedCall(mu[x], t, r.unlocks)]
       /\ th' = Forget([th EXCEPT ![t] =
                          Finished([StartOp(t, "call", x, x) EXCEPT
                                      !.raised = r.raised])])
  /\ UNCHANGED <<iter, wr, rd, re, last, full, kc, pr>>

\* dictRepr: Lock, defer Unlock, the walk of the live entries.
TRepr(t, x, max) ==
  /\ th[t].pc = "idle"
  /\ nops < max
  /\ CanLock(mu[x], t)
  /\ nops' = nops + 1
  /\ mu' = [mu EXCEPT ![x] = LockedCall(mu[x], t, 1)]
  /\ th' = [th EXCEPT ![t] =
              Finished([StartOp(t, "repr", x, x) EXCEPT !.item = Keys(DMem(x))])]
  /\ UNCHANGED <<mem, ref, oth, iter, wr, rd, re, last, full, kc, pr>>

\* ---- dictsAreEqual(f, d1, d2), d1 = Dict x and d2 = Dict y
\* `if d1 == d2 { return true, nil }`
TEqual(t, x, y, max) ==
  /\ th[t].pc = "idle"
  /\ nops < max
  /\ nops' = nops + 1
  /\ th' = [th EXCEPT ![t] =
              IF x = y THEN Finished([StartOp(t, "equal", x, y) EXCEPT !.res = TRUE])
              ELSE [StartOp(t, "equal", x, y) EXCEPT !.pc = "lock1"]]
  /\ UNCHANGED <<mem, ref, oth, iter, wr, rd, re, last, mu, full, kc, pr>>

\* d1.mutex.Lock; iter, g1, len1.
EqLock1(t) ==
  /\ th[t].pc = "lock1"
  /\ CanLock(mu[th[t].x], t)
  /\ mu' = [mu EXCEPT ![th[t].x] = Lock(mu[th[t].x], t)]
  /\ th' = [th EXCEPT ![t].pc = "unlock1",
                      ![t].it = newDictIterator(DMem(th[t].x)),
                      ![t].g1 = DMem(th[t].x).version,
                      ![t].len1 = DictLen(DMem(th[t].x))]
  /\ UNCHANGED <<mem, ref, oth, iter, wr, rd, re, last, nops, full, kc, pr>>

\* d1.mutex.Unlock.
\* (d1's lock kept while d2's is taken)
equalUnlockFirstKept(m) == m
equalUnlockFirst(m) == Unlock(m)
EqUnlock1(t) ==
  /\ th[t].pc = "unlock1"
  /\ mu' = [mu EXCEPT ![th[t].x] = equalUnlockFirst(mu[th[t].x])]
  /\ th' = [th EXCEPT ![t].pc = "lock2"]
  /\ UNCHANGED <<mem, ref, oth, iter, wr, rd, re, last, nops, full, kc, pr>>

\* d2.mutex.Lock; g2, len2.
EqLock2(t) ==
  /\ th[t].pc = "lock2"
  /\ CanLock(mu[th[t].y], t)
  /\ mu' = [mu EXCEPT ![th[t].y] = Lock(mu[th[t].y], t)]
  /\ th' = [th EXCEPT ![t].pc = "unlock2",
                      ![t].g2 = DMem(th[t].y).version,
                      ![t].len2 = DictLen(DMem(th[t].y))]
  /\ UNCHANGED <<mem, ref, oth, iter, wr, rd, re, last, nops, full, kc, pr>>

\* d2.mutex.Unlock.
EqUnlock2(t) ==
  /\ th[t].pc = "unlock2"
  /\ mu' = [mu EXCEPT ![th[t].y] = Unlock(mu[th[t].y])]
  /\ th' = [th EXCEPT ![t].pc = "lengths"]
  /\ UNCHANGED <<mem, ref, oth, iter, wr, rd, re, last, nops, full, kc, pr>>

\* Whether a guard's check fails now.
guardsFail(r) ==
  DMem(r.x).version # r.g1 \/ DMem(r.y).version # r.g2

\* `if len1 != len2 { return false, nil }`
\* (no comparison of the lengths)
lengthsDifferIgnored(len1, len2) == FALSE
lengthsDiffer(len1, len2) == len1 # len2
EqLengths(t) ==
  /\ th[t].pc = "lengths"
  /\ th' = [th EXCEPT ![t] =
              IF lengthsDiffer(th[t].len1, th[t].len2)
              THEN Finished([th[t] EXCEPT !.res = FALSE,
                                          !.changed = guardsFail(th[t])])
              ELSE [th[t] EXCEPT !.pc = "walk", !.res = TRUE]]
  /\ UNCHANGED <<mem, ref, oth, iter, wr, rd, re, last, nops, mu, full, kc, pr>>

\* One iteration of the loop: iter.next(), the loop's condition, then
\* d2.GetItem(f, key) and Eq(f, value, v).
EqWalk(t) ==
  /\ th[t].pc = "walk"
  /\ \E r \in {th[t]} :
     \E n \in { IF r.it.table = nil THEN [index |-> r.it.index, pos |-> 0]
                ELSE entryIteratorNext(DMem(r.x).tables[r.it.table], r.it.index,
                                       loadFill(DMem(r.x), r.it.table)) } :
       th' = [th EXCEPT ![t] =
                IF n.pos = 0 \/ ~r.res
                THEN [r EXCEPT !.pc = "guards", !.it.index = n.index]
                ELSE Only({ [r EXCEPT !.it.index = n.index,
                                      !.res = v # nil /\ EqValue(e.value, v)] :
                            e \in {DMem(r.x).tables[r.it.table].entries[n.pos]},
                            v \in {GetItem(DMem(r.y),
                                     DMem(r.x).tables[r.it.table].entries[n.pos].key)} })]
  /\ UNCHANGED <<mem, ref, oth, iter, wr, rd, re, last, nops, mu, full, kc, pr>>

\* `if !g1.check() || !g2.check()`, and the return.
EqGuards(t) ==
  /\ th[t].pc = "guards"
  /\ th' = [th EXCEPT ![t] =
              Finished([th[t] EXCEPT
                          !.changed = guardsFail(th[t]),
                          !.raised = IF guardsFail(th[t])
                                     THEN errChangedDuringIteration ELSE ""])]
  /\ UNCHANGED <<mem, ref, oth, iter, wr, rd, re, last, nops, mu, full, kc, pr>>

\* ---- d.Update(f, o), d = Dict x and o = Dict y
TUpdate(t, x, y, max) ==
  /\ th[t].pc = "idle"
  /\ nops < max
  /\ nops' = nops + 1
  /\ th' = [th EXCEPT ![t] =
              [StartOp(t, "update", x, y) EXCEPT
                 !.pc = "ulock", !.pre = <<DRef(x).map, DRef(y).map>>]]
  /\ UNCHANGED <<mem, ref, oth, iter, wr, rd, re, last, mu, full, kc, pr>>

\* d2.mutex.Lock; iter = newDictItemIterator(d2).
UpLock(t) ==
  /\ th[t].pc = "ulock"
  /\ CanLock(mu[th[t].y], t)
  /\ mu' = [mu EXCEPT ![th[t].y] = Lock(mu[th[t].y], t)]
  /\ th' = [th EXCEPT ![t].pc = "uunlock",
                      ![t].it = newDictIterator(DMem(th[t].y))]
  /\ UNCHANGED <<mem, ref, oth, iter, wr, rd, re, last, nops, full, kc, pr>>

\* d2.mutex.Unlock.
UpUnlock(t) ==
  /\ th[t].pc = "uunlock"
  /\ mu' = [mu EXCEPT ![th[t].y] = Unlock(mu[th[t].y])]
  /\ th' = [th EXCEPT ![t].pc = "unext"]
  /\ UNCHANGED <<mem, ref, oth, iter, wr, rd, re, last, nops, full, kc, pr>>

\* seqForEach's Next(f, iter): StopIteration ends the loop, any other
\* exception is Update's.
UpNext(t) ==
  /\ th[t].pc = "unext"
  /\ \E r \in {dictIteratorNext(DMem(th[t].y), th[t].it)} :
       th' = [th EXCEPT ![t] =
                IF r.out.raised = errStopIteration
                THEN Finished([th[t] EXCEPT !.it = r.iter])
                ELSE IF r.out.raised # ""
                THEN Finished([th[t] EXCEPT !.it = r.iter, !.raised = r.out.raised])
                ELSE [th[t] EXCEPT !.pc = "uset", !.it = r.iter,
                                   !.item = <<r.out.key, r.out.value>>]]
  /\ UNCHANGED <<mem, ref, oth, iter, wr, rd, re, last, nops, mu, full, kc, pr>>

\* The callback: d.SetItem(f, elems[0], elems[1]).
UpSet(t) ==
  /\ th[t].pc = "uset"
  /\ CanLock(mu[th[t].x], t)
  /\ \E x \in {th[t].x}, c \in {Call("set", th[t].item[1], th[t].item[2])} :
     \E r \in {Perform(DMem(x), c)}, q \in {RefPerform(DRef(x), c)} :
       /\ PutDict(x, r.state, [map |-> q.map, order |-> q.order])
       /\ mu' = [mu EXCEPT ![x] = LockedCall(mu[x], t, r.unlocks)]
       /\ th' = Forget([th EXCEPT ![t] =
                          IF r.raised # ""
                          THEN Finished([th[t] EXCEPT !.raised = r.raised])
                          ELSE [th[t] EXCEPT !.pc = "unext"]])
  /\ UNCHANGED <<iter, wr, rd, re, last, nops, full, kc, pr>>

\* A step of a call in progress.
TStep(t) ==
  \/ EqLock1(t)
  \/ EqUnlock1(t)
  \/ EqLock2(t)
  \/ EqUnlock2(t)
  \/ EqLengths(t)
  \/ EqWalk(t)
  \/ EqGuards(t)
  \/ UpLock(t)
  \/ UpUnlock(t)
  \/ UpNext(t)
  \/ UpSet(t)

TStart(t, max) ==
  \/ \E x \in Dicts, c \in PairCalls : TCall(t, x, c, max)
  \/ \E x \in Dicts : TRepr(t, x, max)
  \/ \E x, y \in Dicts : TEqual(t, x, y, max)
  \/ \E x, y \in Dicts : TUpdate(t, x, y, max)

NextSeq == TStart(1, MaxSeqOps) \/ TStep(1)

\* One thread working on two Dicts.
SpecSeq == InitPair /\ [][NextSeq]_vars

NextPair == \E t \in Threads : TStart(t, MaxPairOps) \/ TStep(t)

\* Two threads working on two Dicts.
SpecPair == InitPair /\ [][NextPair]_vars

\* Two threads that call dictsAreEqual and Update on two Dicts, in all
\* the orders of the two; the scheduler lets every thread go on.
NextLocks ==
  \E t \in Threads :
    \/ \E x, y \in Dicts : TEqual(t, x, y, MaxLockOps)
    \/ \E x, y \in Dicts : TUpdate(t, x, y, MaxLockOps)
    \/ TStep(t)
SpecLocks ==
  InitLocks /\ [][NextLocks]_vars /\ \A t \in Threads : WF_vars(TStep(t))

\* ------------------------------------------- iterator and writer
\* A thread that iterates over the Dict while the writer of SpecConc
\* makes its calls one memory write at a time. The iterator is created
\* under d.mutex, so between two calls of the writer; next() takes no lock.
Reader == CHOOSE t \in Threads : t # Main

\* iter.born (history): what the Dict held when the iterator was created.
RIter ==
  /\ ~iter.active
  /\ CanLock(mu[1], Reader)
  /\ iter' = [noIter EXCEPT !.active = TRUE, !.it = newDictIterator(mem),
                            !.born = ref.map]
  /\ mu' = [mu EXCEPT ![1] = LockedCall(mu[1], Reader, 1)]
  /\ UNCHANGED <<mem, ref, wr, rd, re, last, nops, oth, th, full, kc, pr>>

NextIterConc ==
  \/ \E c \in Calls : WCall(c)
  \/ WStep
  \/ WReturn
  \/ RIter
  \/ IterNext

\* One thread writing and one thread iterating over the same Dict.
SpecIterConc == Init /\ [][NextIterConc]_vars

\* ------------------------------------------------- Keys and writer
\* Keys() read by read, against the writer of SpecConc: the table pointer,
\* fill, then used, then the value of one entry at a time.
MaxKeysCalls == 1
panicIndexOutOfRange == "panic: index out of range"

\* table := d.loadTable()
KTable ==
  /\ kc.pc = "idle"
  /\ kc.calls < MaxKeysCalls
  /\ kc' = [noKeys EXCEPT !.pc = "fill", !.table = mem.table,
                          !.calls = kc.calls + 1]
  /\ UNCHANGED <<mem, ref, iter, wr, rd, re, last, nops, mu, oth, th, full, pr>>

\* fill := int(table.loadFill())
KFill ==
  /\ kc.pc = "fill"
  /\ kc' = [kc EXCEPT !.pc = "used", !.fill = loadFill(mem, kc.table)]
  /\ UNCHANGED <<mem, ref, iter, wr, rd, re, last, nops, mu, oth, th, full, pr>>

\* used := table.loadUsed(); keys := make([]*Object, used)
KUsed ==
  /\ kc.pc = "used"
  /\ kc' = [kc EXCEPT !.pc = "scan", !.used = loadUsed(mem, kc.table)]
  /\ UNCHANGED <<mem, ref, iter, wr, rd, re, last, nops, mu, oth, th, full, pr>>

\* One iteration of the loop: entry.loadValue(), keys[i] = entry.key.
KScan ==
  /\ kc.pc = "scan"
  /\ kc.k < kc.fill
  /\ \E e \in {mem.tables[kc.table].entries[kc.k + 1]} :
       kc' = IF e.value = nil THEN [kc EXCEPT !.k = kc.k + 1]
             ELSE IF Len(kc.keys) >= kc.used
             THEN [kc EXCEPT !.pc = panicIndexOutOfRange]
             ELSE [kc EXCEPT !.k = kc.k + 1, !.keys = Append(kc.keys, e.key)]
  /\ UNCHANGED <<mem, ref, iter, wr, rd, re, last, nops, mu, oth, th, full, pr>>

\* return NewList(keys[:i]...)
KReturn ==
  /\ kc.pc = "scan"
  /\ kc.k >= kc.fill
  /\ kc' = [kc EXCEPT !.pc = "done"]
  /\ UNCHANGED <<mem, ref, iter, wr, rd, re, last, nops, mu, oth, th, full, pr>>

NextKeys ==
  \/ \E c \in Calls : WCall(c)
  \/ WStep
  \/ WReturn
  \/ KTable
  \/ KFill
  \/ KUsed
  \/ KScan
  \/ KReturn

\* One thread writing and one thread calling Keys() on the same Dict.
SpecKeys == Init /\ [][NextKeys]_vars

\* ------------------------------------------------------------ growth
\* Programs that leave the table full (fill = capa) at each capacity the
\* key classes can fill, with every number of live entries: the next
\* insert of an absent key doubles or compacts.
GrowPrefixes ==
  LET full4 == SetAll(<<1>>) \o Churn(1, 3)
      full8 == SetAll(<<1, 2, 3, 4, 5>>) \o Churn(5, 3)
      full16 == full8 \o Churn(5, 12)
  IN  { SetAll(<<1, 2, 3, 4>>),
        SetAll(<<1, 2, 3>>) \o Churn(3, 1),
        SetAll(<<1, 2>>) \o Churn(2, 2),
        full4,
        full4 \o DelAll(<<1>>),
        full8,
        full8 \o DelAll(<<5, 4, 3>>),
        full16,
        full16 \o DelAll(<<5, 3>>) }
GrowStarts ==
  { RunCalls(d, RefEmpty, p) : d \in {NewDict, dictNew}, p \in GrowPrefixes }
InitGrow ==
  /\ \E s \in GrowStarts : mem = s.mem /\ ref = s.ref
  /\ iter = noIter
  /\ wr = noWriter
  /\ rd = noReader
  /\ re = noReent
  /\ last = noCall
  /\ nops = 0
  /\ mu = [d \in Dicts |-> freeMutex]
  /\ oth = noOther
  /\ th = noThreads
  /\ full = noFull
  /\ kc = noKeys
  /\ pr = noProbe
\* One thread making calls on a Dict whose table is full.
SpecGrow == InitGrow /\ [][Next]_vars

\* ------------------------------------------------------------ the probe
\* The probe loop of lookupEntry and insertAbsentEntry on its own: the
\* hash of a key no entry equals, the mask of a table with indices, and
\* the slots of indices that are not zero (at most capa of the 2 * capa).
\* The sequence is followed on after the zero slot at which the loop
\* returns, to see which slots it visits.
MaxProbes == 80
ProbeMasks ==
  {2 * (2 * maxDictWithoutHashSize) - 1, 2 * (4 * maxDictWithoutHashSize) - 1}
ProbeHashes ==
  {0 - 2147483647, 0 - 1025, 0 - 33, 0 - 1, 0, 1, 7, 31, 32, 1023, 2147483647}
Occupied(mask) ==
  LET capa == (mask + 1) \div 2
  IN  { {}, 0..(capa - 1), capa..mask,
        {s \in 0..mask : s % 2 = 0}, {s \in 0..mask : s % 2 = 1},
        {s \in 0..mask : s % 4 = 1} }
probeStart(hash, mask, occ) ==
  LET i == BitAnd(Uint32Of(UintOf(hash)), mask)
  IN  [noProbe EXCEPT !.pc = "walk", !.hash = hash, !.mask = mask, !.occ = occ,
                      !.i = i, !.perturb = UintOf(hash), !.index = BitAnd(i, mask)]
InitProbe ==
  /\ mem = NewDict
  /\ ref = [map |-> RefEmpty.map, order |-> RefEmpty.order]
  /\ iter = noIter
  /\ wr = noWriter
  /\ rd = noReader
  /\ re = noReent
  /\ last = noCall
  /\ nops = 0
  /\ mu = [d \in Dicts |-> freeMutex]
  /\ oth = noOther
  /\ th = noThreads
  /\ full = noFull
  /\ kc = noKeys
  /\ \E hash \in ProbeHashes, mask \in ProbeMasks :
       \E occ \in Occupied(mask) : pr = probeStart(hash, mask, occ)

\* One iteration of the loop: load indices[index], then the next index.
PStep ==
  /\ pr.pc = "walk"
  /\ pr.steps < MaxProbes
  /\ \E nx \in {dictNextIndex(pr.i, pr.perturb)} :
       \E visited \in {pr.visited \cup {pr.index}} :
         \E stopped \in {pr.stopped \/ pr.index \notin pr.occ} :
           pr' = [pr EXCEPT
                    !.i = nx[1], !.perturb = nx[2],
                    !.index = BitAnd(nx[1], pr.mask),
                    !.visited = visited,
                    !.stopped = stopped,
                    !.stop = IF ~pr.stopped /\ stopped THEN pr.index ELSE pr.stop,
                    !.steps = pr.steps + 1,
                    !.pc = IF stopped /\ visited = 0..pr.mask
                           THEN "done" ELSE "walk"]
  /\ UNCHANGED <<mem, ref, iter, wr, rd, re, last, nops, mu, oth, th, full, kc>>

NextProbe == PStep
\* A thread in the probe loop keeps running.
SpecProbe == InitProbe /\ [][NextProbe]_vars /\ WF_vars(PStep)

\* ------------------------------------------------------ a full table
\* putItem of a key that lookupEntry did not find, on a table with
\* fill = capa, at every capacity newDictTable gives, the largest
\* included, and with the live entries popitem can leave. The table's
\* entries, indices and mask are left out: putItem and growTable read
\* used, fill and capa alone until the new size is chosen. d.version
\* counts from this state on.
RECURSIVE Doubled(_)
Doubled(c) == IF c >= maxDictSize THEN {c} ELSE {c} \cup Doubled(c * 2)
Capas == Doubled(minDictSize)
UsedOf(capa) ==
  { u \in {0, 1, capa \div 8, capa \div 2 - 1, capa \div 2, capa \div 2 + 1,
           capa - 1, capa} : u <= capa }
fullTable(capa, used) ==
  [used |-> used, fill |-> capa, capa |-> capa, mask |-> 0,
   indices |-> <<>>, entries |-> <<>>]
fullDict(capa, used) ==
  [table |-> 1, tables |-> <<fullTable(capa, used)>>, version |-> 0]
absentLook == [index |-> 0, entry |-> nil]

InitFull ==
  /\ \E capa \in Capas : \E used \in UsedOf(capa) :
       \E k \in KeyObjs, v \in Values \cup {nil} :
         /\ mem = fullDict(capa, used)
         /\ full = [noFull EXCEPT !.capa = capa, !.used = used, !.key = k,
                                  !.val = v, !.pc = "put"]
  /\ ref = [map |-> RefEmpty.map, order |-> <<>>]
  /\ iter = noIter
  /\ wr = noWriter
  /\ rd = noReader
  /\ re = noReent
  /\ last = noCall
  /\ nops = 0
  /\ mu = [d \in Dicts |-> freeMutex]
  /\ oth = noOther
  /\ th = noThreads
  /\ kc = noKeys
  /\ pr = noProbe

\* putItem from its version check to its return, when it deletes an absent
\* key or growTable refuses.
PutFullReturn ==
  /\ full.pc = "put"
  /\ CanLock(mu[1], Main)
  /\ full.val = nil \/ ~growSize(full.used, full.capa).ok
  /\ \E w \in {putItemWrite(mem, mem.table, absentLook, Hash(full.key),
                            full.key, full.val, TRUE)} :
       /\ mem' = RunPlan(mem, w.plan)
       /\ last' = [ret |-> <<w.ret>>, raised |-> w.raised,
                   call |-> Call(IF full.val = nil THEN "delete" ELSE "set",
                                 full.key, full.val)]
       /\ mu' = [mu EXCEPT ![1] = LockedCall(mu[1], Main, w.unlocks)]
  /\ full' = [full EXCEPT !.pc = "done"]
  /\ UNCHANGED <<ref, iter, wr, rd, re, nops, oth, th, kc, pr>>

\* putItem up to growTable's newDictTable(n): the capacity of the table
\* the entries are copied to.
PutFullGrow ==
  /\ full.pc = "put"
  /\ CanLock(mu[1], Main)
  /\ full.val # nil
  /\ \E g \in {growSize(full.used, full.capa)} :
       /\ g.ok
       /\ full' = [full EXCEPT !.pc = "grown", !.newCapa = roundSize(g.n)]
  /\ UNCHANGED <<mem, ref, iter, wr, rd, re, last, nops, mu, oth, th, kc, pr>>

NextFull == PutFullReturn \/ PutFullGrow

\* One write to a Dict whose table is full.
SpecFull == InitFull /\ [][NextFull]_vars

\* ------------------------------------------------------------ properties
published == mem.tables[mem.table]
hasTable == mem.table # nil
Present == {c \in Classes : ref.map[c] # nil}
Positions(t) == 1..t.capa
LivePositions(t) == {p \in Positions(t) : t.entries[p].value # nil}

\* C1: after any sequence of calls by one thread, get(k) returns for every
\* key the value the reference map holds for it (the value of the latest
\* set or inserting setdefault not removed since), and absent otherwise.
C1_GetRefinesMap ==
  \A k \in KeyObjs : GetItem(mem, k) = ref.map[Cls(k)]

\* (a key set again after its delete, read back in a rebuilt table)
C1_Witness ==
  /\ mem.table >= 3
  /\ last.call.op = "set"
  /\ GetItem(mem, last.call.key) = last.call.val
  /\ \E p \in Positions(published) :
       /\ published.entries[p].value = nil
       /\ published.entries[p].key # nil
       /\ Eq(published.entries[p].key, last.call.key)
  /\ \E c \in Classes : ref.map[c] = nil

\* C4: a next() made after a content-changing call completed raises
\* "dictionary changed during iteration", also when the iterator had
\* reported the end before the change.
C4_NextRaisesOnceModified ==
  (iter.active /\ iter.out # noOut /\ iter.outModified)
    => iter.out.raised = errChangedDuringIteration

\* (an iterator that had stopped, and raises after a later change)
C4_Witness ==
  /\ iter.active /\ iter.stopped /\ iter.outModified
  /\ iter.out.raised = errChangedDuringIteration

\* C5: the walk of entries[0..fill) that skips tombstones yields the keys
\* in the order of their latest insertion, and in a table without indices
\* lookupEntry finds, among the entries of a key, the newest one.
Newest(t, k) ==
  LET ps == {p \in 1..t.fill : Eq(t.entries[p].key, k)}
  IN  IF ps = {} THEN nil ELSE CHOOSE p \in ps : \A q \in ps : q <= p
C5_InsertionOrder ==
  /\ Len(Keys(mem)) = Len(ref.order)
  /\ \A j \in 1..Len(ref.order) : Cls(Keys(mem)[j]) = ref.order[j]
  /\ (hasTable /\ published.mask = 0) =>
       \A k \in KeyObjs :
         lookupEntry(mem.tables, mem.table, Hash(k), k).entry = Newest(published, k)

\* (a key deleted and set again, last in the walk, its tombstone before it,
\* in a table without indices)
C5_Witness ==
  /\ hasTable /\ published.mask = 0
  /\ Len(ref.order) >= 2
  /\ last.call.op = "set"
  /\ Cls(last.call.key) = ref.order[Len(ref.order)]
  /\ \E p \in 1..published.fill :
       /\ published.entries[p].value = nil
       /\ Eq(published.entries[p].key, last.call.key)
       /\ p < Newest(published, last.call.key)

\* C6: length() is the number of keys the reference map holds, and the
\* number of entries of entries[0..fill) with a value.
C6_LenCountsLive ==
  /\ DictLen(mem) = Cardinality(Present)
  /\ hasTable => DictLen(mem) = Cardinality({p \in 1..published.fill :
                                              published.entries[p].value # nil})

\* (a table with tombstones, after a delete)
C6_Witness ==
  /\ hasTable /\ last.call.op \in {"delete", "pop", "popitem"}
  /\ DictLen(mem) >= 1
  /\ DictLen(mem) < published.fill

\* C9: the keys of the live entries of the published table are pairwise
\* unequal.
C9_LiveKeysDistinct ==
  hasTable =>
    \A p, q \in LivePositions(published) :
      p # q => ~Eq(published.entries[p].key, published.entries[q].key)

\* (a key set through an equal object after its delete: hashed table)
C9_Witness ==
  /\ hasTable /\ published.mask # 0
  /\ last.call.op \in {"set", "setdefault"}
  /\ \E p, q \in 1..published.fill :
       /\ p < q
       /\ published.entries[p].value = nil /\ published.entries[q].value # nil
       /\ published.entries[p].key # published.entries[q].key
       /\ Eq(published.entries[p].key, published.entries[q].key)

\* C10: in a hashed table every live entry has exactly one index slot, and
\* the probe from hash & mask reaches it before any zero slot.
RECURSIVE ProbeReaches(_, _, _, _, _)
ProbeReaches(t, c, hash, pos, fuel) ==
  IF lookupAt(t, c) = pos THEN TRUE
  ELSE IF lookupAt(t, c) = 0 \/ fuel = 0 THEN FALSE
  ELSE Only({ ProbeReaches(t, [c EXCEPT !.i = nx[1], !.perturb = nx[2],
                                        !.index = BitAnd(nx[1], t.mask)],
                           hash, pos, fuel - 1) :
              nx \in {dictNextIndex(c.i, c.perturb)} })
SlotsOf(t, pos) == {i \in 1..Len(t.indices) : t.indices[i] = pos}
C10_LiveEntryIndexed ==
  (hasTable /\ published.mask # 0) =>
    \A p \in LivePositions(published) :
      /\ Cardinality(SlotsOf(published, p)) = 1
      /\ ProbeReaches(published, lookupStart(published, published.entries[p].hash),
                      published.entries[p].hash, p, Len(published.indices))

\* (a hashed table where a deleted key was set again: its slot was rewritten)
C10_Witness ==
  /\ hasTable /\ published.mask # 0
  /\ last.call.op = "set"
  /\ \E p \in 1..published.fill :
       /\ published.entries[p].value = nil
       /\ Eq(published.entries[p].key, last.call.key)
       /\ SlotsOf(published, p) = {}
  /\ \E p \in LivePositions(published) :
       published.indices[BitAnd(Uint32Of(UintOf(published.entries[p].hash)),
                                published.mask) + 1] # p

\* C2: a reader without the lock never looks at an entry that is not
\* fully written, and what its get(k) returns is absent or a value some
\* set stored for a key equal to k, loaded from an entry whose key is
\* equal to k; also when the writer replaces the table meanwhile.
C2_NoTornEntry ==
  /\ ~rd.torn
  /\ (rd.pc = "done" /\ rd.res # nil) =>
       /\ rd.res \in wr.stored[Cls(rd.key)]
       /\ Eq(mem.tables[rd.table].entries[rd.entry].key, rd.key)

\* (a get that returned the value of an entry written while it probed)
C2_Witness ==
  /\ rd.pc = "done"
  /\ rd.res # nil
  /\ wr.call.op = "set"
  /\ Eq(wr.call.key, rd.key)
  /\ rd.hist = {nil, rd.res}
  /\ mem.tables[rd.table].mask # 0

\* C3 as stated: the value a get returns is the value the map holds for
\* the key at the moment of the get's load of the entry's value (before
\* or after the call in progress at that moment, if there is one).
C3_LinearizesAtValueLoad ==
  (rd.pc = "done" /\ rd.loaded) => rd.res \in rd.now

\* C3, amended: the value a get returns is a value the map held for the
\* key at some moment between the get's load of the table pointer and its
\* return (absent included); it need not be the value at the value load.
C3_LinearizesWithinGet ==
  rd.pc = "done" => rd.res \in rd.hist

\* (a get that returned from a replaced table a value the Dict no longer
\* held at the value load)
C3_Witness ==
  /\ rd.pc = "done"
  /\ rd.loaded
  /\ rd.res \notin rd.now
  /\ rd.table # mem.table

\* C8 as stated: used <= fill <= capacity in every state of every table,
\* the states between a writer's writes included.
TableOrdered(t) ==
  /\ 0 <= t.used
  /\ t.used <= t.fill
  /\ t.fill <= t.capa
  /\ IsPowerOfTwo(t.capa)
  /\ minDictSize <= t.capa
  /\ t.capa <= maxDictSize
C11_VersionStrictlyIncreases ==
  [][ /\ mem'.version >= mem.version
      /\ (last'.raised = "" /\ RefPerform(ref, last'.call).changed)
           => mem'.version = mem.version + 1
      /\ ref' # ref => mem'.version > mem.version ]_vars

\* (three calls on a new Dict, each of which changed content: an insert,
\* an overwrite or insert, and a popitem)
C11_Witness ==
  /\ nops = 3
  /\ mem.version = 3
  /\ last.call.op = "popitem"
  /\ last.raised = ""
  /\ \E c \in Classes : ref.map[c] # nil

\* C12: a popitem on a Dict with a live entry returns the key and value of
\* the live entry at the highest position, which is the key inserted last;
\* it stores nil in that entry's value, takes one from used, adds one to
\* the version and changes nothing else.
LastLivePosition(t) ==
  CHOOSE p \in LivePositions(t) : \A q \in LivePositions(t) : q <= p
C12_PopItemTakesLastLive ==
  [][ (last'.call.op = "popitem" /\ DictLen(mem) > 0) =>
        \E p \in {LastLivePosition(published)} :
          /\ last'.raised = ""
          /\ last'.ret = <<published.entries[p].key, published.entries[p].value>>
          /\ Cls(last'.ret[1]) = ref.order[Len(ref.order)]
          /\ mem'.table = mem.table
          /\ mem'.version = mem.version + 1
          /\ mem'.tables =
               [mem.tables EXCEPT ![mem.table].entries[p].value = nil,
                                  ![mem.table].used = @ - 1] ]_vars

\* (a popitem that returned an entry below a tombstone, and left a live
\* entry behind)
C12_Witness ==
  /\ last.call.op = "popitem"
  /\ last.raised = ""
  /\ DictLen(mem) >= 1
  /\ \E p, q \in 1..published.fill :
       /\ p < q
       /\ p = Newest(published, last.ret[1])
       /\ published.entries[p].key = last.ret[1]
       /\ published.entries[p].value = nil
       /\ published.entries[q].value = nil
       /\ ~Eq(published.entries[q].key, last.ret[1])

\* C13: a popitem on a Dict without a live entry (emptied by deletes,
\* cleared, or made by NewDict() and never written) raises KeyError
\* "popitem(): dictionary is empty" and leaves the Dict's memory as it was.
C13_PopItemEmptyRaisesKeyError ==
  [][ (last'.call.op = "popitem" /\ DictLen(mem) = 0) =>
        /\ last'.raised = errPopItemEmpty
        /\ mem' = mem ]_vars

\* C14: a setdefault(k, v) on a Dict that holds k returns the value held
\* and leaves the Dict's memory as it was; on one that does not, it adds
\* (k, v) as the newest entry, adds one to the version and returns v.
C14_SetDefaultKeepsLive ==
  [][ last'.call.op = "setdefault" =>
        \E k \in {last'.call.key}, v \in {last'.call.val} :
          /\ last'.raised = ""
          /\ IF ref.map[Cls(k)] # nil
             THEN /\ last'.ret = <<ref.map[Cls(k)]>>
                  /\ mem' = mem
             ELSE /\ last'.ret = <<v>>
                  /\ mem'.version = mem.version + 1
                  /\ GetItem(mem', k) = v
                  /\ Keys(mem') = Append(Keys(mem), k)
                  /\ DictLen(mem') = DictLen(mem) + 1 ]_vars

\* (a setdefault that returned the value of a key set again after its
\* delete, not its own default)
C14_Witness ==
  /\ last.call.op = "setdefault"
  /\ last.raised = ""
  /\ last.ret # <<last.call.val>>
  /\ last.ret = <<GetItem(mem, last.call.key)>>
  /\ \E p \in 1..published.fill :
       /\ published.entries[p].value = nil
       /\ Eq(published.entries[p].key, last.call.key)

\* C15: self.update(other), for every two Dicts, the same Dict twice
\* included, and with no other thread, returns without an exception and
\* leaves self with other's value for every key of other and its own
\* earlier value for every other key.
C15_UpdateMerges ==
  \A t \in Threads :
    (th[t].pc = "idle" /\ th[t].fin = "update") =>
      /\ th[t].raised = ""
      /\ \A k \in KeyObjs :
           GetItem(DMem(th[t].x), k) =
             IF th[t].pre[2][Cls(k)] # nil THEN th[t].pre[2][Cls(k)]
             ELSE th[t].pre[1][Cls(k)]

\* C16: with no other thread, dictsAreEqual(a, b) is true exactly when the
\* two Dicts hold the same keys with equal values, whatever their
\* insertion orders and tombstones; so dictsAreEqual(a, b) and
\* dictsAreEqual(b, a) agree, and dictsAreEqual(a, a) is true.
C16_EqualSymmetric ==
  \A t \in Threads : \A x, y \in Dicts :
    /\ th[t].seen[<<x, x>>] \in {"none", "true"}
    /\ th[t].seen[<<x, y>>] # "none" =>
         th[t].seen[<<x, y>>] =
           IF DRef(x).map = DRef(y).map THEN "true" ELSE "false"
    /\ (th[t].seen[<<x, y>>] # "none" /\ th[t].seen[<<y, x>>] # "none") =>
         th[t].seen[<<x, y>>] = th[t].seen[<<y, x>>]

\* (two Dicts compared both ways and found equal: different insertion
\* orders, one of them with a tombstone)
C16_Witness ==
  /\ th[1].seen[<<1, 2>>] = "true"
  /\ th[1].seen[<<2, 1>>] = "true"
  /\ ref.order # oth.ref.order
  /\ Len(ref.order) >= 2
  /\ \/ loadFill(mem, mem.table) # DictLen(mem)
     \/ loadFill(oth.mem, oth.mem.table) # DictLen(oth.mem)

\* C17: a dictsAreEqual that returns after the version of one of its two
\* Dicts has moved away from the guard it captured raises "dictionary
\* changed during iteration"; it does not return a boolean.
C17_ChangeRaises ==
  \A t \in Threads :
    (th[t].pc = "idle" /\ th[t].fin = "equal" /\ th[t].changed) =>
      th[t].raised = errChangedDuringIteration

\* C18: a write to a full table raises OverflowError "result too large"
\* exactly when it inserts an absent key, the capacity is maxDictSize and
\* used >= maxDictSize / 2; then the Dict's memory is unchanged and the
\* mutex is free. Every other insert into a full table gets a table with
\* room for the new entry: one compacted to at most the same capacity
\* when used < capa / 2, one of twice the capacity otherwise.
C18_OverflowOnlyAtMaxHalfUsed ==
  full.pc \in {"done", "grown"} =>
    /\ (last.raised = errResultTooLarge) <=>
         /\ full.val # nil
         /\ full.capa = maxDictSize
         /\ full.used >= maxDictSize \div 2
    /\ last.raised = errResultTooLarge =>
         /\ mem = fullDict(full.capa, full.used)
         /\ mu[1] = freeMutex
    /\ (full.val # nil /\ last.raised # errResultTooLarge) =>
         /\ full.pc = "grown"
         /\ full.newCapa > full.used
         /\ IsPowerOfTwo(full.newCapa)
         /\ IF full.used < full.capa \div 2
            THEN full.newCapa <= full.capa
            ELSE full.newCapa = full.capa * 2 /\ full.newCapa <= maxDictSize

\* (an insert into the full table of the largest capacity, half of its
\* entries live, has raised OverflowError)
C18_Witness ==
  /\ full.pc = "done"
  /\ full.capa = maxDictSize
  /\ full.used = maxDictSize \div 2
  /\ last.raised = errResultTooLarge
  /\ last.call.op = "set"

\* C19: a call on the Dict leaves d.mutex as it found it. While putItem
\* is between its Lock and its return (in lookupEntry, in an Eq callback,
\* at the version check) the thread holds the mutex once, whatever calls
\* the callbacks made; before the Lock and after every return (normal,
\* with the callback's exception, with "dictionary changed during write",
\* with KeyError) the mutex is free, so another thread can lock it.
C19_LockReleasedOnEveryExit ==
  /\ mu[1] = IF re.pc \in {"probe", "eq", "check"} THEN Lock(freeMutex, Main)
             ELSE freeMutex
  /\ mu[2] = freeMutex
  /\ re.pc \in {"idle", "hash"} => \A t \in Threads : CanLock(mu[1], t)

\* (putItem has returned "dictionary changed during write" after an Eq
\* callback changed the Dict, and the mutex is free)
C19_Witness ==
  /\ re.pc = "idle"
  /\ re.returned
  /\ re.eqChanged
  /\ re.raised = errChangedDuringWrite
  /\ mu[1] = freeMutex

C21_DeleteAbsentIsNoOp ==
  [][ last'.call.op \in {"delete", "pop"} =>
        \E k \in {last'.call.key} :
          /\ last'.raised = ""
          /\ IF ref.map[Cls(k)] = nil
             THEN /\ last'.ret = IF last'.call.op = "delete" THEN <<FALSE>>
                                 ELSE <<nil>>
                  /\ mem' = mem
             ELSE /\ last'.ret = IF last'.call.op = "delete" THEN <<TRUE>>
                                 ELSE <<ref.map[Cls(k)]>>
                  /\ mem' # mem
                  /\ \E p \in LivePositions(published) :
                       /\ Eq(published.entries[p].key, k)
                       /\ mem'.tables[mem.table].entries[p].value = nil ]_vars

\* (a delete that returned false for a key held only by a tombstone,
\* while another key is live)
C21_Witness ==
  /\ last.call.op = "delete"
  /\ last.ret = <<FALSE>>
  /\ DictLen(mem) >= 1
  /\ \E p \in 1..published.fill :
       /\ published.entries[p].value = nil
       /\ Eq(published.entries[p].key, last.call.key)

\* C22: every key and value that next() returns without raising was held
\* by the Dict, the key with that value, when the iterator was created.
C22_NextReturnsOnlyOldEntries ==
  (iter.active /\ iter.out.raised = "") =>
    /\ iter.out.key # nil
    /\ iter.born[Cls(iter.out.key)] = iter.out.value

\* C23: a step that replaces the published table adds to the version; so
\* while putItem holds the mutex with the version it snapshotted still
\* current, the table it snapshotted is the published one; and no step
\* writes to a table other than the published one or one it has just made.
C23_VersionCheckCoversTable ==
  /\ []((re.pc \in {"probe", "eq", "check"} /\ mem.version = re.v)
          => mem.table = re.t)
  /\ [][ /\ mem'.table # mem.table => mem'.version > mem.version
         /\ \A tp \in 1..Len(mem.tables) :
              tp # mem.table => mem'.tables[tp] = mem.tables[tp] ]_vars

\* (a putItem whose callback called the Dict has passed its version check
\* and written, with a replaced table left behind in the heap)
C23_Witness ==
  /\ re.returned
  /\ re.raised = ""
  /\ re.wrote
  /\ re.nested > 0
  /\ mem.table = re.t
  /\ Len(mem.tables) >= 2

\* C24: in Keys(), whatever the writer does between its reads, the number
\* of entries of entries[0..fill) found with a non-nil value is at most
\* the used it loaded after fill: the store keys[i] stays inside the slice
\* of length used.
C24_KeysStaysInsideSlice ==
  /\ kc.pc # panicIndexOutOfRange
  /\ Len(kc.keys) <= kc.used
  /\ kc.k <= kc.fill

\* (a Keys() that returned fewer keys than the used it loaded, on a table
\* the writer added an entry to after Keys() loaded fill)
C24_Witness ==
  /\ kc.pc = "done"
  /\ Len(kc.keys) < kc.used
  /\ Len(kc.keys) > 0
  /\ mem.tables[kc.table].fill > kc.fill

\* The smallest power of two that is at least n, among the capacities.
SmallestCapaAtLeast(n) ==
  CHOOSE c \in Capas : c >= n /\ \A d \in Capas : d >= n => c <= d
\* A call that inserts a key the Dict does not hold into a full table.
InsertsIntoFull(c) ==
  /\ c.op \in {"set", "setdefault"}
  /\ hasTable
  /\ published.fill = published.capa
  /\ ref.map[Cls(c.key)] = nil

\* C25: a set or setdefault of an absent key when fill = capa installs a
\* new table: of capacity the smallest power of two >= max(2 * used, 4)
\* when used < capa / 2, of capacity 2 * capa otherwise; it holds the old
\* live entries in their order followed by the new entry, its used and
\* fill are the old used + 1, and no "overrun" panic is raised.
C25_FullInsertGrows ==
  [][ (nops' = nops + 1 /\ InsertsIntoFull(last'.call)) =>
        LET t == published
            nt == mem'.tables[mem'.table]
            c == last'.call
            n == IF 2 * t.used > minDictSize THEN 2 * t.used ELSE minDictSize
        IN  /\ last'.raised = ""
            /\ mem'.table # mem.table
            /\ mem'.table > Len(mem.tables)
            /\ nt.capa = IF t.used < t.capa \div 2 THEN SmallestCapaAtLeast(n)
                          ELSE 2 * t.capa
            /\ nt.used = t.used + 1
            /\ nt.fill = t.used + 1
            /\ [j \in 1..nt.fill |-> nt.entries[j]]
                 = liveEntries(t, 1) \o <<dictEntry(Hash(c.key), c.key, c.val)>>
            /\ \A j \in (nt.fill + 1)..nt.capa : nt.entries[j] = zeroEntry
  ]_vars
\* (an insert that found a hashed table full, with fewer live entries
\* than half its capacity, and left a smaller table without indices)
C25_Witness ==
  /\ last.call.op = "set"
  /\ last.raised = ""
  /\ hasTable
  /\ published.mask = 0
  /\ published.fill = published.used
  /\ published.entries[published.fill].key = last.call.key
  /\ \E tp \in 1..Len(mem.tables) :
       /\ tp # mem.table
       /\ mem.tables[tp].mask # 0
       /\ mem.tables[tp].fill = mem.tables[tp].capa
       /\ mem.tables[tp].used + 1 = published.used
       /\ published.capa < mem.tables[tp].capa

\* A call that deletes a key the Dict holds through putItem.
DeletesPresent(c) ==
  /\ c.op \in {"delete", "pop"}
  /\ hasTable
  /\ ref.map[Cls(c.key)] # nil

\* C26: after a delete or pop of a present key the table is rebuilt
\* exactly when the counters after the delete satisfy used < capa / 8 and
\* fill > (capa / 8) * 5; the rebuild raises nothing, installs a table of
\* strictly smaller capacity with the same live entries in the same
\* order, and version has grown by the delete's one increment only.
C26_DownsizeAfterDelete ==
  [][ (nops' = nops + 1 /\ DeletesPresent(last'.call)) =>
        LET t == published
            after == mem'.tables[mem.table]
            nt == mem'.tables[mem'.table]
            rebuild == t.used - 1 < t.capa \div 8 /\ t.fill > (t.capa \div 8) * 5
        IN  /\ last'.raised = ""
            /\ mem'.version = mem.version + 1
            /\ after.used = t.used - 1
            /\ after.fill = t.fill
            /\ rebuild <=> mem'.table # mem.table
            /\ rebuild =>
                  /\ mem'.table > Len(mem.tables)
                  /\ nt.capa < t.capa
                  /\ nt.used = after.used
                  /\ nt.fill = after.used
                  /\ [j \in 1..nt.fill |-> nt.entries[j]] = liveEntries(after, 1)
                  /\ Len(liveEntries(t, 1)) = Len(liveEntries(after, 1)) + 1
  ]_vars
\* (a delete that left one live entry among eleven and moved it to a
\* table of capacity 4)
C26_Witness ==
  /\ last.call.op = "delete"
  /\ last.raised = ""
  /\ hasTable
  /\ published.capa = minDictSize
  /\ published.used = 1
  /\ published.fill = 1
  /\ \E tp \in 1..Len(mem.tables) :
       /\ tp # mem.table
       /\ mem.tables[tp].mask # 0
       /\ mem.tables[tp].used = 1
       /\ mem.tables[tp].fill > (mem.tables[tp].capa \div 8) * 5
       /\ liveEntries(mem.tables[tp], 1) = <<published.entries[1]>>

\* The writer returns from a set or setdefault of a key that was absent.
ReturnsInsert ==
  /\ wr.pc = "run"
  /\ wr'.pc = "idle"
  /\ wr.call.op \in {"set", "setdefault"}
  /\ wr.raised = ""
  /\ ref.map[Cls(wr.call.key)] = nil

\* C27: in every step, of every entry below fill of every table the hash
\* and the key stay as they are and a nil value stays nil; a set of a key
\* that was absent (deleted entries of an equal key included) has written
\* its entry at position fill, the last one of the table, and the deleted
\* entries of that key are still nil.
C27_EntriesWrittenOnce ==
  [][ /\ Len(mem'.tables) >= Len(mem.tables)
      /\ \A tp \in 1..Len(mem.tables) :
           \A pos \in 1..mem.tables[tp].fill :
             LET e == mem.tables[tp].entries[pos]
                 e2 == mem'.tables[tp].entries[pos]
             IN  /\ e2.hash = e.hash
                 /\ e2.key = e.key
                 /\ e.value = nil => e2.value = nil
      /\ ReturnsInsert =>
           /\ published.fill > 0
           /\ published.entries[published.fill]
                = dictEntry(Hash(wr.call.key), wr.call.key, wr.call.val)
           /\ \A pos \in 1..(published.fill - 1) :
                Cls(published.entries[pos].key) = Cls(wr.call.key)
                  => published.entries[pos].value = nil
  ]_vars
\* (a set of a deleted key has returned: its new entry is the last one
\* and the deleted entry of the key is still in the table, still nil)
C27_Witness ==
  /\ last.call.op = "set"
  /\ last.raised = ""
  /\ wr.pc = "idle"
  /\ hasTable
  /\ published.fill > 1
  /\ published.entries[published.fill].key = last.call.key
  /\ published.entries[published.fill].value = last.call.val
  /\ \E pos \in 1..(published.fill - 1) :
       /\ Cls(published.entries[pos].key) = Cls(last.call.key)
       /\ published.entries[pos].value = nil

\* C28: for every hash, negative ones included, and every mask of a table
\* with indices the probe sequence index = i & mask, (i, perturb) <-
\* (5 * i + perturb + 1, perturb >> 5), visits every slot of indices in
\* the end; with at most capa of the 2 * capa slots not zero the loop of
\* lookupEntry and insertAbsentEntry comes to a zero slot and returns.
C28_ProbeVisitsEverySlot ==
  /\ <>(pr.visited = 0..pr.mask)
  /\ <>(pr.stopped /\ pr.stop \notin pr.occ /\ pr.stop \in 0..pr.mask)
\* (a probe for a negative hash, through a table half of whose slots are
\* taken, has loaded every slot and found its zero slot only after it had
\* used up the perturbation)
C28_Witness ==
  /\ pr.pc = "done"
  /\ pr.hash < 0
  /\ pr.visited = 0..pr.mask
  /\ Cardinality(pr.occ) = (pr.mask + 1) \div 2
  /\ pr.stopped
  /\ pr.steps > NumDigits
  /\ \A d \in 1..Len(pr.perturb) : pr.perturb[d] = 0

\* The Dict as a thread sees it that loaded d.table when it was tp.
Snapshot(S, tp) == [S EXCEPT !.table = tp]

\* C29: clear() stores a fresh table of capacity 4 with used = fill = 0
\* and increments version; then Len() is 0 and GetItem finds no key. No
\* older table is changed: a reader or an entry iterator that loaded the
\* replaced table before still finds all it held, and the next() of an
\* iterator created before the clear raises, then and ever after.
C29_ClearInstallsEmptyTable ==
  [][ /\ mem'.version >= mem.version
      /\ (iter.active /\ iter'.nexts = iter.nexts + 1
                      /\ iter.it.version # mem.version)
           => iter'.out.raised = errChangedDuringIteration
      /\ (nops' = nops + 1 /\ last'.call.op = "clear") =>
           LET nt == mem'.tables[mem'.table]
               it == iter.it
           IN  /\ last'.raised = ""
               /\ mem'.table > Len(mem.tables)
               /\ nt.capa = minDictSize
               /\ nt.used = 0
               /\ nt.fill = 0
               /\ nt.mask = 0
               /\ \A pos \in 1..nt.capa : nt.entries[pos] = zeroEntry
               /\ mem'.version = mem.version + 1
               /\ DictLen(mem') = 0
               /\ Keys(mem') = <<>>
               /\ \A k \in KeyObjs : GetItem(mem', k) = nil
               /\ \A tp \in 1..Len(mem.tables) : mem'.tables[tp] = mem.tables[tp]
               /\ hasTable =>
                    /\ Keys(Snapshot(mem', mem.table)) = Keys(mem)
                    /\ \A k \in KeyObjs :
                         GetItem(Snapshot(mem', mem.table), k) = ref.map[Cls(k)]
               /\ iter.active =>
                    /\ dictIteratorNext(mem', it).out.raised
                         = errChangedDuringIteration
                    /\ dictIteratorNext(mem', it).iter = dictIteratorNext(mem, it).iter
                    /\ it.table # nil =>
                         liveEntries(mem'.tables[it.table], 1)
                           = liveEntries(mem.tables[it.table], 1)
  ]_vars
\* (an iterator over a Dict with entries, a clear, and a next() that
\* raised: one version step since the iterator was created, the
\* iterator's table still with its entries, the Dict's table empty)
C29_Witness ==
  /\ iter.active
  /\ last.call.op = "clear"
  /\ iter.nexts > 0
  /\ iter.out.raised = errChangedDuringIteration
  /\ iter.it.table # nil
  /\ iter.it.table # mem.table
  /\ mem.version = iter.it.version + 1
  /\ mem.tables[iter.it.table].used > 0
  /\ published.capa = minDictSize
  /\ published.fill = 0
  /\ DictLen(mem) = 0
====
